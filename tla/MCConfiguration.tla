--------------------------- MODULE MCConfiguration ---------------------------
(***************************************************************************)
(* What a configuration is read from, for TLC.  Of the bundles of the      *)
(* allocator: three generations, with collectors in a directory, with      *)
(* static targets and with both; either the process is killed and calls    *)
(* fail, over two of them, or the machine loses power, and the bundle a    *)
(* start finds then loads.  Of the watch: two collectors, one of them of   *)
(* descriptors; either the descriptor file, its import and a certificate   *)
(* that one configuration names are written, or the collector file that    *)
(* one lists.  The bundles and the watch are of different exporters, so a  *)
(* behaviour is of one part.                                               *)
(***************************************************************************)
EXTENDS BundleCache, ConfigWatch

VARIABLE part

CONSTANTS g1, g2, g3, plain, grpc, sent

MCGenerations == {g1, g2, g3}
MCNames == {"config.yaml", "static-targets.yaml", "collectors"}

MCNamesOf(g) ==
  CASE g = g1 -> {"config.yaml", "collectors"}
    [] g = g2 -> {"config.yaml", "static-targets.yaml"}
    [] g = g3 -> MCNames

MCConfigurations ==
  {[collectors |-> {grpc}, tls |-> FALSE, listed |-> {}],
   [collectors |-> {plain, grpc}, tls |-> TRUE, listed |-> {}],
   [collectors |-> {plain}, tls |-> FALSE, listed |-> {"collectors"}]}

MCCollectorFiles == {{plain}, {grpc}}

MCTargetFiles ==
  {{[collector |-> plain, message |-> NoMessage]}, {[collector |-> grpc, message |-> sent]}}

MCInit ==
  /\ part \in {"process", "machine", "descriptors", "collectors"} /\ Init /\ WatchInit
  /\ file["descriptors"].says # {} /\ file["collectors"].says = {grpc}
  /\ ~current.config.tls /\ (part = "collectors" \/ current.config.listed = {})

MCNext ==
  /\ UNCHANGED part
  /\ \/ /\ part = "process" /\ Next /\ UNCHANGED wvars
        /\ losses' = 0 /\ bundle' # g3 /\ seen' # g3
        /\ failures' + misreads' <= 2
        /\ ~Undisturbed /\ kills' = kills =>
             /\ manager' = manager \/ inForce' # inForce
             /\ reader' = "config" => at = "idle" /\ {seen, inForce} = {g1, g2}
     \/ /\ part = "machine" /\ Next /\ UNCHANGED wvars
        /\ kills' = 0 /\ failures' = 0 /\ misreads' = 0
        /\ losses' # losses => inForce' = Cached(view')
     \/ /\ part \in {"descriptors", "collectors"} /\ WatchNext /\ UNCHANGED vars
        /\ writes > 0 => hidden' \subseteq hidden
        /\ \A f \in Files :
             file'[f] # file[f] =>
               /\ file'[f].says # file[f].says
               /\ f \in {"descriptors", "import", "certificate"} => part = "descriptors"
               /\ f = "collectors" => part = "collectors"
        /\ file'["config"].says \in Configurations =>
             IF part = "collectors" THEN ~file'["config"].says.tls
             ELSE file'["config"].says.listed = {}
        /\ Cardinality(hidden') <= 1
        /\ IF part = "collectors"
           THEN file'["targets"].says \in TargetFiles /\ "targets" \notin hidden'
           ELSE collected' = <<>> /\ hidden' \subseteq {"targets"}

MCSpec == MCInit /\ [][MCNext]_<<part, vars, wvars>> /\ WatchFairness

=============================================================================
