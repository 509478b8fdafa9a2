-------------------------- MODULE MCFormatGlobals --------------------------
(***************************************************************************)
(* Two goroutines and three calls: a formatter with an option for          *)
(* everything, one with the defaults, and each of the other entry points.  *)
(***************************************************************************)
EXTENDS FormatGlobals

Settings(limit, tab, fallback, skip, targets) ==
  [limit |-> limit, tab |-> tab, fallback |-> fallback, skipGofmt |-> skip,
   targets |-> targets]

MCDefaultTargets == {"log.Infof"}

Plain == Settings(0, 0, FALSE, FALSE, NoTargets)

MCRequests ==
  {[op |-> "file",    set |-> Settings(60, 4, TRUE, TRUE, {"my.Logf"})],
   [op |-> "file",    set |-> Plain],
   [op |-> "default", set |-> Plain],
   [op |-> "greedy",  set |-> Settings(100, 2, FALSE, FALSE, NoTargets)],
   [op |-> "packed",  set |-> Settings(60, 2, FALSE, FALSE, NoTargets)],
   [op |-> "literal", set |-> Plain]}
=============================================================================
