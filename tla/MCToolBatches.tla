---------------------------- MODULE MCToolBatches ----------------------------
(* The instances of ToolBatches that TLC checks. *)
EXTENDS ToolBatches

Edit(p) == [kind |-> "edit", path |-> p]
Write(p) == [kind |-> "write", path |-> p]
Read == [kind |-> "read", path |-> None]
Bash == [kind |-> "bash", path |-> None]
Invalid == [kind |-> "invalid", path |-> None]

Runs2 == {"first", "second"}

Turns(calls, others) == [r \in Runs2 |-> IF r = "first" THEN calls ELSE others]

\* Three edits of one file and a write besides, parallel reads before a barrier, an
\* unknown tool between them, a command.
SomeTurns ==
  LET p == CHOOSE p \in Paths : TRUE
      q == CHOOSE q \in Paths \ {p} : TRUE
  IN {Turns(<<Edit(p), Edit(p)>>, <<Edit(p)>>),
      Turns(<<Write(p), Edit(q)>>, <<Edit(p)>>),
      Turns(<<Read, Read, Edit(p)>>, <<>>),
      Turns(<<Read, Invalid, Bash>>, <<>>)}

OneCommand == {Turns(<<Bash>>, <<>>)}

================================================================================
