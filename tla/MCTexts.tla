------------------------------ MODULE MCTexts ------------------------------
(***************************************************************************)
(* What is done to the bytes and the lines of one text, one part at a      *)
(* time.                                                                   *)
(*                                                                         *)
(* "owners": the first four stages of the default pipeline over a text of  *)
(* four bytes.  Comments are off (a NoopFormatter, which declares          *)
(* nothing), compact-calls owns up to three spans (a call, its argument    *)
(* list and a nested call), expressions is on and owns no span, and        *)
(* multiline-calls owns up to one span or a nested pair.                   *)
(*                                                                         *)
(* "edits": texts over two bytes, short enough that repeated bytes make    *)
(* differences ambiguous, and up to three edits collected in any order.    *)
(*                                                                         *)
(* "comments": the files of MCComments, formatted twice.                   *)
(***************************************************************************)
EXTENDS Ownership, EditBuilder, MCComments

CONSTANTS
  a, b        \* the two bytes

VARIABLE
  part        \* "owners", "edits" or "comments": the other parts rest

MCStages == <<"comments", "compact-calls", "expressions", "multiline-calls">>

UpTo(n) == UNION {[1..k -> SpansOf(TextLen)] : k \in 0..n}

MCProvides ==
  [name \in ToSet(MCStages) |->
     CASE name = "comments"        -> {}
       [] name = "compact-calls"   -> UpTo(3)
       [] name = "expressions"     -> {<<>>}
       [] name = "multiline-calls" ->
            UpTo(1) \cup {<<OffsetSpan(0, 4), OffsetSpan(1, 4)>>}]

MCSources == {<<a, a, b>>, <<a, b>>}

MCContents == {<<>>, <<a>>, <<b>>, <<b, a>>}

-----------------------------------------------------------------------------
PartsInit ==
  /\ part \in {"owners", "edits", "comments"}
  /\ Init
  /\ BuilderInit
  /\ part # "edits" => src = <<a, b>>
  /\ CommentsInit

PartsNext ==
  \/ part = "owners" /\ Next /\ UNCHANGED <<part, builderVars, commentsVars>>
  \/ part = "edits" /\ BuilderNext /\ UNCHANGED <<part, vars, commentsVars>>
  \/ part = "comments" /\ CommentsNext /\ UNCHANGED <<part, vars, builderVars>>

PartsSpec == PartsInit /\ [][PartsNext]_<<part, vars, builderVars, commentsVars>>
=============================================================================
