----------------------------- MODULE ConfigWatch -----------------------------
(***************************************************************************)
(* The configuration manager (internal/config/config.go) with its watch    *)
(* on: the configuration and the static target file are read again when    *)
(* the watch finds a change, or when asked, and go in force together, or   *)
(* one of them alone, when they agree.  Files change between any two steps *)
(* of a reload, which takes their stamps before it reads them.             *)
(*                                                                         *)
(* A configuration says which collectors it has, whether it lists the      *)
(* collector file, whose collectors join its own, and whether it names a   *)
(* certificate; a static target file, which collector each target names,   *)
(* with a message or none.  The collectors of Grpc name one descriptor     *)
(* file, which imports another, and against the two the configuration and  *)
(* the messages of targets are checked.  A file's stamp is the number of   *)
(* writes to it.                                                           *)
(***************************************************************************)
EXTENDS Integers, FiniteSets, Functions

CONSTANTS
  Collectors, Grpc,   \* collectors, and those that name the descriptor file
  Messages,
  NoMessage,          \* a target that sets none
  Configurations,     \* as [collectors, tls, listed]
  CollectorFiles,     \* sets of collectors
  TargetFiles,        \* sets of [collector, message]
  Malformed,          \* what a file says that is refused for itself
  Missing,            \* what there is at the path of no file
  Nothing,
  MaxWrites

\* A configuration, as its file writes it or with the collectors of what it lists.
Loaded == [collectors : SUBSET Collectors, tls : BOOLEAN, listed : SUBSET {"collectors"}]

ASSUME WatchAssumption ==
  /\ Grpc \subseteq Collectors /\ NoMessage \notin Messages /\ MaxWrites \in Nat
  /\ Configurations \subseteq Loaded /\ CollectorFiles \subseteq SUBSET Collectors
  /\ TargetFiles \subseteq
       SUBSET [collector : Collectors, message : Messages \cup {NoMessage}]
  /\ {Malformed, Missing, Nothing} \cap Loaded = {}
  /\ {Malformed, Missing} \cap CollectorFiles = {}
  /\ {Malformed, Missing, Nothing} \cap TargetFiles = {}
  /\ Missing # "valid" /\ \A fitting \in SUBSET Messages : Missing # fitting
  /\ Malformed # Missing /\ Nothing \notin {Malformed, Missing}

VARIABLES
  file,           \* what each file says, and how often it was written
  hidden,         \* files that cannot be read, which no stamp of theirs shows
  current,        \* Manager.current
  step,           \* where the reload is, or idle
  job,            \* which files it reads, and a history: see Reasons
  got,            \* those it has read, Nothing of the others
  taken,          \* history: the stamp of the collector file when it was read
  lastMod,        \* lastMod and targetsLastMod: the stamps compared
  collected,      \* collectorFiles: stamps of the files of watchedFiles
  descriptors,    \* Manager.descriptors: stamps of those of the one in force
  loading,        \* Manager.loading: of those of the configuration last read
  retry,          \* retryFiles with retryStamp, of each file
  waits,          \* configWaits and targetsWaits
  unread,         \* configUnread and targetsUnread
  rejected,       \* Reloads.Rejected()
  overtaken,      \* history: see ReadCollectorFiles
  unlisted        \* history: see ReadCollectorFiles

history == <<overtaken, unlisted>>
watch == <<lastMod, collected, descriptors, loading, retry, waits, unread, rejected,
           history>>
reload == <<step, job, got, taken>>
wvars == <<file, hidden, current, reload, watch>>

Watched == {"config", "targets"}
Named == {"descriptors", "import", "certificate", "collectors"}
Files == Watched \cup Named

\* What a reload is of: each file, if it reads it, and a configuration that a tick
\* found changed while the target file waited for it.
Reasons == Watched \cup {"awaited"}

\* What each file may say: the descriptor file, which messages fit.
Says(f) ==
  CASE f = "config" -> Configurations \cup {Malformed, Missing}
    [] f = "targets" -> TargetFiles \cup {Malformed, Missing}
    [] f = "descriptors" -> (SUBSET Messages) \cup {Missing}
    [] f = "collectors" -> CollectorFiles \cup {Malformed, Missing}
    [] f \in {"import", "certificate"} -> {"valid", Missing}

\* filesStamp, collectorFilesStamp and stampedFiles.changed.
Stamps(files) == [f \in files |-> file[f].n]
Changed(stamps) == \E f \in DOMAIN stamps : file[f].n # stamps[f]

-----------------------------------------------------------------------------

\* load, with mergeCollectorFiles: a configuration that lists the collector file,
\* whose collectors are s, and whether none of them is defined twice.
Merged(c, s) == IF c.listed = {} THEN c ELSE [c EXCEPT !.collectors = c.collectors \cup s]
Mergeable(c, s) == c.listed # {} => s \in CollectorFiles /\ s \cap c.collectors = {}

\* namedDescriptorFiles, importedFiles, and namedFiles.
DescriptorsOf(c) == IF c.collectors \cap Grpc # {} THEN {"descriptors"} ELSE {}
ImportsOf(descriptorFiles) ==
  IF descriptorFiles # {} /\ file["descriptors"].says # Missing THEN {"import"} ELSE {}
NamedFiles(c) == DescriptorsOf(c) \cup (IF c.tls THEN {"certificate"} ELSE {})

\* targetsNamedFiles: those of the collectors of targets with a message.
CheckedFiles(t, configs) ==
  IF \E x \in t, c \in configs :
       x.message # NoMessage /\ x.collector \in c.collectors \cap Grpc
  THEN {"descriptors"} ELSE {}

\* Whether the files a configuration names are as loading it needs them: the
\* certificate is there, and the methods of Grpc are in the descriptors, which
\* compile when the file they import is there.
Descriptions ==
  IF file["import"].says = Missing THEN Missing ELSE file["descriptors"].says
Described(c) == DescriptorsOf(c) # {} => Descriptions # Missing
Loads(c) == Described(c) /\ (c.tls => file["certificate"].says # Missing)

\* ValidateStaticTargetsAgainst: collectors are there, and messages fit.
Fits(x) == Descriptions # Missing /\ x.message \in Descriptions
agree(t, c) ==
  \A x \in t :
    /\ x.collector \in c.collectors
    /\ (x.collector \in Grpc /\ x.message # NoMessage) => Fits(x)

Readable(f) == file[f].says # Missing /\ f \notin hidden

\* Where the reload goes after the configuration, and after the target file.
AfterConfig == IF job["targets"] THEN "stamp targets" ELSE "check"

-----------------------------------------------------------------------------

writes == FoldFunction(LAMBDA each, sum : each.n + sum, 0, file)

\* A file is written, replaced or removed; becomes readable or unreadable by
\* its owner, an ACL or a directory.
Write(f, says) ==
  /\ writes < MaxWrites
  /\ file' = [file EXCEPT ![f] = [says |-> says, n |-> file[f].n + 1]]
  /\ UNCHANGED <<hidden, current, reload, watch>>

ChangeAccess(f) ==
  /\ hidden' = IF f \in hidden THEN hidden \ {f} ELSE hidden \cup {f}
  /\ UNCHANGED <<file, current, reload, watch>>

\* configChanged and targetsChanged: a file that is not there has not changed.
configChanged ==
  /\ file["config"].says # Missing
  /\ \/ file["config"].n # lastMod["config"]
     \/ Changed(collected) \/ Changed(retry["config"]) \/ Changed(loading)
targetsChanged ==
  /\ file["targets"].says # Missing
  /\ file["targets"].n # lastMod["targets"] \/ Changed(retry["targets"])

targetsFollowDescriptors ==
  /\ "targets" \notin rejected
  /\ CheckedFiles(current.targets, {current.config}) # {}

\* reloadChanged: what a tick of the watch reads for a change, and what for
\* a file alone that could not be read.
DoConfig ==
  \/ configChanged
  \/ Changed(descriptors)
  \/ targetsChanged /\ "config" \in waits
\* DoTargets, but that a target file which waits is not read for the configuration.
DoTargets_NotWaiting ==
  \/ targetsChanged
  \/ Changed(descriptors) /\ targetsFollowDescriptors

DoTargets ==
  \/ targetsChanged
  \/ configChanged /\ "targets" \in waits
  \/ Changed(descriptors) /\ targetsFollowDescriptors
QuietConfig ==
  /\ ~DoConfig
  /\ \/ "config" \in unread
     \/ "config" \in waits /\ "targets" \in unread /\ ~DoTargets
QuietTargets ==
  /\ ~DoTargets
  /\ \/ "targets" \in unread
     \/ "targets" \in waits /\ "config" \in unread /\ ~DoConfig

\* apply begins.
Begins(doConfig, doTargets) ==
  /\ step = "idle" /\ (doConfig \/ doTargets)
  /\ job' = [config |-> doConfig, targets |-> doTargets,
             awaited |-> configChanged /\ "targets" \in waits]
  /\ step' = IF doConfig THEN "stamp config" ELSE "stamp targets"
  /\ UNCHANGED <<file, hidden, current, got, taken, watch>>

\* Tick, but that a file that could not be read is read again only when it changes.
Tick_ForChanges == Begins(DoConfig, DoTargets)

Tick == Begins(DoConfig \/ QuietConfig, DoTargets \/ QuietTargets)

\* ReloadAsked, of SIGHUP or POST /-/reload.
ReloadAsked == Begins(TRUE, TRUE)

\* rejectConfig and rejectTargets.  Of a configuration the imports of the one in
\* force are stamped, which need not have been read for it.
reject(files, waiting, because) ==
  /\ waits' = IF waiting THEN waits \cup files ELSE waits \ files
  /\ unread' = IF because THEN unread \cup files ELSE unread \ files
  /\ rejected' = rejected \cup files
retryImported(stamps) ==
  [f \in DOMAIN stamps \cup ImportsOf(DescriptorsOf(current.config)) |->
     IF f \in DOMAIN stamps THEN stamps[f] ELSE file[f].n]

\* loadConfig: the file is stamped before anything is read, ...
StampConfig ==
  /\ step = "stamp config"
  /\ step' = "list collectors"
  /\ lastMod' = IF file["config"].says = Missing THEN lastMod
             ELSE [lastMod EXCEPT !["config"] = file["config"].n]
  /\ UNCHANGED <<file, hidden, current, job, got, taken, collected, descriptors, loading,
                 retry, waits, unread, rejected, history>>

\* listedCollectorFiles: a file that cannot be read keeps the list of the one in
\* force, and of one that is refused the list may say anything.
Listings ==
  IF ~Readable("config") THEN {current.config.listed}
  ELSE IF file["config"].says = Malformed THEN SUBSET {"collectors"}
  ELSE {file["config"].says.listed}

\* ... then the collector files that it lists, in a read of its own, and what the
\* configuration in force names ...
ListCollectorFiles ==
  /\ step = "list collectors"
  /\ step' = "read config"
  /\ \E listed \in Listings : collected' = Stamps(listed)
  /\ retry' = [retry EXCEPT !["config"] = Stamps(NamedFiles(current.config))]
  /\ descriptors' = Stamps(DOMAIN descriptors)
  /\ loading' = <<>>
  /\ unlisted' = FALSE
  /\ UNCHANGED <<file, hidden, current, job, got, taken, lastMod, waits, unread, rejected,
                 overtaken>>

\* ... it is read ...
ReadConfiguration ==
  LET c == file["config"].says IN
  /\ step = "read config"
  /\ \/ /\ Readable("config") /\ c # Malformed
        /\ got' = [got EXCEPT !["config"] = c]
        /\ step' = "read collectors"
        /\ UNCHANGED <<waits, unread, rejected, retry>>
     \/ /\ ~Readable("config") \/ c = Malformed
        /\ reject({"config"}, FALSE, ~Readable("config"))
        /\ retry' = [retry EXCEPT !["config"] = retryImported(@)]
        /\ step' = AfterConfig
        /\ UNCHANGED got
  /\ UNCHANGED <<file, hidden, current, job, taken, lastMod, collected, descriptors, loading,
                 history>>

\* ... and the collector files it lists, and what it names then is stamped ...  One
\* that is not in force, read for descriptors alone without the target file that waits
\* for it, overtook that: it was written after the tick looked, or was refused for
\* those descriptors.  One whose collector files were not those listed is unlisted:
\* it could not be read when it was to list them, or was written since.
ReadCollectorFiles ==
  LET c == got["config"]
      s == file["collectors"].says
      refused == ~Mergeable(c, s) \/ (c.listed # {} /\ ~Readable("collectors"))
      candidate ==
        IF Readable("collectors") /\ s # Malformed THEN Merged(c, s) ELSE c
  IN
  /\ step = "read collectors"
  /\ loading' = LET named == DescriptorsOf(candidate) IN Stamps(named \cup ImportsOf(named))
  /\ unlisted' = ~(c.listed \subseteq DOMAIN collected)
  /\ LET named == Stamps(NamedFiles(current.config) \cup NamedFiles(candidate)) IN
     \/ /\ ~refused
        /\ got' = [got EXCEPT !["config"] = candidate]
        /\ taken' = IF c.listed = {} THEN 0 ELSE file["collectors"].n
        /\ retry' = [retry EXCEPT !["config"] = named]
        /\ step' = "load config"
        /\ overtaken' = (overtaken \/ ("targets" \in waits /\ ~job["targets"]
                                         /\ ~job["awaited"] /\ candidate # current.config))
        /\ UNCHANGED <<waits, unread, rejected>>
     \/ /\ refused
        /\ got' = [got EXCEPT !["config"] = Nothing]
        /\ retry' = [retry EXCEPT !["config"] = retryImported(named)]
        /\ \E because \in BOOLEAN :
             /\ s # Missing => because = ("collectors" \in hidden)
             /\ reject({"config"}, FALSE, because)
        /\ step' = AfterConfig
        /\ UNCHANGED <<taken, overtaken>>
  /\ UNCHANGED <<file, hidden, current, job, lastMod, collected, descriptors>>

\* ... and checked against what it names.
LoadConfig ==
  /\ step = "load config"
  /\ step' = AfterConfig
  /\ IF Loads(got["config"]) THEN UNCHANGED <<got, retry, waits, unread, rejected>>
     ELSE /\ reject({"config"}, FALSE, FALSE)
          /\ retry' = [retry EXCEPT !["config"] = retryImported(@)]
          /\ got' = [got EXCEPT !["config"] = Nothing]
  /\ UNCHANGED <<file, hidden, current, job, taken, lastMod, collected, descriptors, loading,
                 history>>

\* loadTargets.
StampTargets ==
  /\ step = "stamp targets"
  /\ step' = "read targets"
  /\ lastMod' = IF file["targets"].says = Missing THEN lastMod
             ELSE [lastMod EXCEPT !["targets"] = file["targets"].n]
  /\ retry' = [retry EXCEPT !["targets"] = <<>>]
  /\ overtaken' = FALSE
  /\ UNCHANGED <<file, hidden, current, job, got, taken, collected, descriptors, loading,
                 waits, unread, rejected, unlisted>>

\* The files that checking it opens are stamped before it is checked.
ReadTargetFile ==
  LET t == file["targets"].says
      checked == CheckedFiles(t, {current.config, got["config"]} \ {Nothing})
  IN
  /\ step = "read targets"
  /\ step' = "check"
  /\ \/ /\ Readable("targets") /\ t # Malformed
        /\ got' = [got EXCEPT !["targets"] = t]
        /\ retry' = [retry EXCEPT !["targets"] = Stamps(checked \cup ImportsOf(checked))]
        /\ UNCHANGED <<waits, unread, rejected>>
     \/ /\ ~Readable("targets") \/ t = Malformed
        /\ reject({"targets"}, FALSE, ~Readable("targets"))
        /\ UNCHANGED <<got, retry>>
  /\ UNCHANGED <<file, hidden, current, job, taken, lastMod, collected, descriptors, loading,
                 history>>

\* Collector files that are not those listed are stamped again in install, late: a
\* change since they were read is slept through, unlisted.
collect(c) ==
  /\ collected' = IF DOMAIN collected = c.listed THEN collected ELSE Stamps(c.listed)
  /\ unlisted' = (unlisted /\ c.listed # {} /\ file["collectors"].n # taken)

\* install, but that the descriptors are stamped as they go in force.
install_StampsLate(files) ==
  /\ current' = [f \in Watched |-> IF f \in files THEN got[f] ELSE current[f]]
  /\ waits' = waits \ files
  /\ unread' = unread \ files
  /\ rejected' = rejected \ files
  /\ retry' = [f \in Watched |-> IF f \in files THEN <<>> ELSE retry[f]]
  /\ descriptors' = Stamps(DescriptorsOf(current'.config))
  /\ loading' = <<>>
  /\ UNCHANGED <<collected, unlisted>>

\* install, of the files that were read or some of them.
install(files) ==
  /\ current' = [f \in Watched |-> IF f \in files THEN got[f] ELSE current[f]]
  /\ waits' = waits \ files
  /\ unread' = unread \ files
  /\ rejected' = rejected \ files
  /\ retry' = [f \in Watched |-> IF f \in files THEN <<>> ELSE retry[f]]
  /\ IF "config" \in files
     THEN descriptors' = loading /\ loading' = <<>> /\ collect(got["config"])
     ELSE UNCHANGED <<descriptors, loading, collected, unlisted>>

Left == {f \in Watched : got[f] # Nothing}

\* The pair that files, read, make with the others in force.
Pair(files, f) == IF f \in files THEN got[f] ELSE current[f]
AgreeOf(files) == agree(Pair(files, "targets"), Pair(files, "config"))

\* The reload ends, with what it keeps while it goes on.
done ==
  /\ step' = "idle"
  /\ job' = [f \in Reasons |-> FALSE]
  /\ got' = [f \in Watched |-> Nothing]
  /\ taken' = 0

\* apply: what was read goes in force together, when it agrees, ...
CheckTogether ==
  /\ step = "check"
  /\ \/ Left = {} /\ done /\ UNCHANGED <<current, watch>>
     \/ /\ Left # {} /\ AgreeOf(Left)
        /\ install(Left) /\ done
        /\ UNCHANGED <<lastMod, overtaken>>
     \/ /\ Left # {} /\ ~AgreeOf(Left)
        /\ step' = "config alone"
        /\ UNCHANGED <<current, job, got, taken, watch>>
  /\ UNCHANGED <<file, hidden>>

\* ... or one of them alone, when both were read: a pair is checked once.
ConfigAlone ==
  /\ step = "config alone"
  /\ step' = "targets alone"
  /\ IF Left = Watched /\ AgreeOf({"config"})
     THEN install({"config"}) /\ got' = [got EXCEPT !["config"] = Nothing]
     ELSE UNCHANGED <<current, got, collected, descriptors, loading, retry, waits, unread,
                      rejected, unlisted>>
  /\ UNCHANGED <<file, hidden, job, taken, lastMod, overtaken>>

\* What is left is refused, and waits for the other file.
TargetsAlone ==
  /\ step = "targets alone"
  /\ done
  /\ IF Left = Watched /\ AgreeOf({"targets"})
     THEN /\ current' = [current EXCEPT !["targets"] = got["targets"]]
          /\ retry' = [config |-> retryImported(retry["config"]), targets |-> <<>>]
          /\ waits' = {"config"} /\ unread' = {} /\ rejected' = {"config"}
     ELSE /\ reject(Left, TRUE, FALSE)
          /\ retry' = IF "config" \notin Left THEN retry
                      ELSE [retry EXCEPT !["config"] = retryImported(@)]
          /\ UNCHANGED current
  /\ UNCHANGED <<file, hidden, lastMod, collected, descriptors, loading, history>>

Step ==
  \/ StampConfig \/ ListCollectorFiles \/ ReadConfiguration \/ ReadCollectorFiles
  \/ LoadConfig \/ StampTargets \/ ReadTargetFile
  \/ CheckTogether \/ ConfigAlone \/ TargetsAlone

\* The exporter starts with files that are valid, stamped before it read them.
WatchInit ==
  /\ \E c \in Configurations, t \in TargetFiles, s \in CollectorFiles,
        d \in SUBSET Messages :
       /\ file = [f \in Files |-> [n |-> 0, says |->
            CASE f = "config" -> c [] f = "targets" -> t
              [] f = "descriptors" -> d [] f = "collectors" -> s
              [] f \in {"import", "certificate"} -> "valid"]]
       /\ Mergeable(c, s) /\ agree(t, Merged(c, s))
       /\ current = [config |-> Merged(c, s), targets |-> t]
       /\ collected = Stamps(c.listed)
       /\ descriptors = LET named == DescriptorsOf(Merged(c, s)) IN
                          Stamps(named \cup ImportsOf(named))
  /\ hidden = {}
  /\ step = "idle"
  /\ job = [f \in Reasons |-> FALSE]
  /\ got = [f \in Watched |-> Nothing]
  /\ taken = 0
  /\ lastMod = [f \in Watched |-> 0]
  /\ loading = <<>>
  /\ retry = [f \in Watched |-> <<>>]
  /\ waits = {} /\ unread = {} /\ rejected = {}
  /\ overtaken = FALSE /\ unlisted = FALSE

WatchNext ==
  \/ \E f \in Files : \E says \in Says(f) : Write(f, says)
  \/ \E f \in Watched \cup {"collectors"} : ChangeAccess(f)
  \/ Tick \/ ReloadAsked \/ Step

\* The watch ticks, and a reload goes on.
WatchFairness == WF_wvars(Tick) /\ WF_wvars(Step)

WatchSpec == WatchInit /\ [][WatchNext]_wvars /\ WatchFairness

-----------------------------------------------------------------------------

IsStamps(s) == DOMAIN s \subseteq Named /\ s \in [DOMAIN s -> Nat]

WatchTypeOK ==
  /\ DOMAIN file = Files
  /\ \A f \in Files : file[f].n \in Nat /\ file[f].says \in Says(f)
  /\ hidden \subseteq Watched \cup {"collectors"}
  /\ current.config \in Loaded /\ current.targets \in TargetFiles
  /\ step \in {"idle", "stamp config", "list collectors", "read config", "read collectors",
               "load config", "stamp targets", "read targets", "check", "config alone",
               "targets alone"}
  /\ job \in [Reasons -> BOOLEAN]
  /\ lastMod \in [Watched -> Nat]
  /\ IsStamps(collected) /\ IsStamps(descriptors) /\ IsStamps(loading) /\ taken \in Nat
  /\ DOMAIN retry = Watched /\ \A f \in Watched : IsStamps(retry[f])
  /\ waits \subseteq rejected /\ unread \subseteq rejected /\ rejected \subseteq Watched
  /\ waits \cap unread = {}

\* What a file on disk says, the collector file with the configuration that lists it,
\* and what of it a reload of it alone would accept, or Nothing.
Written(f) ==
  IF f = "config" /\ file["config"].says \in Configurations
  THEN Merged(file["config"].says,
              IF file["collectors"].says \in CollectorFiles THEN file["collectors"].says
              ELSE {})
  ELSE file[f].says
CollectorsValid ==
  /\ Mergeable(file["config"].says, file["collectors"].says)
  /\ file["config"].says.listed # {} => Readable("collectors")
Valid(f) ==
  IF ~Readable(f) \/ file[f].says = Malformed THEN Nothing
  ELSE IF f = "config" /\ ~(CollectorsValid /\ Loads(Written(f))) THEN Nothing
  ELSE Written(f)

\* What a reload would leave in force that nothing changes under.
OnDisk(files) ==
  [f \in Watched |-> IF f \in files /\ Valid(f) # Nothing THEN Valid(f) ELSE current[f]]
Agreed(files) == agree(OnDisk(files).targets, OnDisk(files).config)
Reloaded ==
  IF Agreed(Watched) THEN OnDisk(Watched)
  ELSE IF Agreed({"config"}) THEN OnDisk({"config"})
  ELSE IF Agreed({"targets"}) THEN OnDisk({"targets"})
  ELSE current

\* No tick has anything to do.
Settled ==
  step = "idle" /\ ~(DoConfig \/ QuietConfig \/ DoTargets \/ QuietTargets)

\* No change is slept through: when no tick has anything to do, a reload would
\* change nothing that is in force, but for the one change that overtook a target
\* file which waits and that of a collector file which was not listed; and when the
\* last reload of neither file was rejected, what is in force is what the files say,
\* and still fits the descriptors.
NoChangeSleptThrough ==
  /\ WatchTypeOK
  /\ \A x \in current.targets : x.collector \in current.config.collectors
  /\ (Settled /\ ~overtaken /\ ~unlisted) => Reloaded = current
  /\ (Settled /\ rejected = {} /\ ~unlisted) =>
       \A f \in Watched : file[f].says = Missing \/ Written(f) = current[f]
  /\ (Settled /\ rejected = {}) => Agreed({}) /\ Described(current.config)

\* Files that are valid together, and left alone, get in force in the end, again
\* but for the changes that overtook or were not listed.
Sound ==
  /\ \A f \in Watched : Valid(f) # Nothing
  /\ agree(Valid("targets"), Valid("config"))
ValidGetsInForce ==
  <>[](Sound /\ ~overtaken /\ ~unlisted) => <>[](\A f \in Watched : current[f] = Valid(f))

\* A file refused only because the other one, as in force, disagrees with it is
\* read again when that changes.
WaiterReadAgain == (Settled /\ waits # {}) => Reloaded = current

=============================================================================
