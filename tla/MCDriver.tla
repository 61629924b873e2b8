------------------------------- MODULE MCDriver -------------------------------
(* Two processes at a time, one directory, and one input file whose revisions
   share a namespace; a file name option gives a second target. *)
EXTENDS Driver

Command(input, filename) ==
  [parsed |-> TRUE, help |-> FALSE, version |-> FALSE, input |-> input,
   dir |-> "out", filename |-> filename]

MCCommands == {
  Command("a", ""), Command("a", "named"), Command("", ""),
  [Command("a", "") EXCEPT !.help = TRUE], [Command("a", "") EXCEPT !.parsed = FALSE]}

Revision(id, parses, valid) ==
  [id |-> id, parses |-> parses, valid |-> valid, namespace |-> "space"]

MCRevisions == {Revision(1, TRUE, TRUE), Revision(2, TRUE, TRUE), Revision(3, TRUE, FALSE),
                Revision(4, FALSE, FALSE)}
=============================================================================
