-------------------------------- MODULE Driver --------------------------------
(***************************************************************************)
(* main() and compile_schema(): processes of the compiler, started one     *)
(* after the other or side by side (as a parallel build does), over one    *)
(* file system.  A step is what a process does up to its next system call. *)
(* Calls of the system may fail, and a process may be killed, a bounded    *)
(* number of times.                                                        *)
(*                                                                         *)
(* What a process compiles is a revision of a schema file: [id, parses,    *)
(* valid, namespace].  An output file is [of, state]: the revision it was  *)
(* generated from, and how much of it is there.  A target [dir, base]      *)
(* names the two files of a compilation.                                   *)
(***************************************************************************)
EXTENDS Naturals, FiniteSets

CONSTANTS Procs,       \* process identifiers, used again for later runs
          Commands,    \* what ArgParser may have made of a command line: [parsed,
                       \* help, version, input, dir, filename]
          Revisions,   \* the revisions an input file may hold
          Dirs,        \* output directories
          Bases,       \* base names: file names and namespaces
          Missing,     \* no such file, directory or revision
          MaxRuns,     \* bound: processes started
          MaxEdits,    \* bound: edits of input files
          MaxFaults    \* bound: failing calls and killed processes

\* An option that was not given.
Nothing == ""

ASSUME MissingAssumption ==
  /\ Missing \notin Revisions
  /\ Missing # 1 /\ Missing # "directory" /\ Missing # "file"

ASSUME CommandsAssumption ==
  /\ Commands # {}
  /\ \A c \in Commands : c.dir \in Dirs /\ c.filename \in Bases \cup {Nothing}

ASSUME RevisionsAssumption == \A r \in Revisions : r.namespace \in Bases

VARIABLES
  inputs,      \* the input files: Missing or a revision
  dirs,        \* the output directories: Missing, "directory" or "file"
  files,       \* the output files, by target and extension
  pc,          \* where each process is, "idle" when none runs
  cmd,         \* its command line
  got,         \* the revision it read
  exit,        \* the exit code of the last process under this identifier, or Missing
  runs, edits, faults,  \* how much of the bounds is used
  disturbed,   \* history: the processes that wrote while another did, or wrote short
  made         \* history: the revision of the last process that wrote a target, Missing
               \* if it did not come to its end undisturbed

vars == <<inputs, dirs, files, pc, cmd, got, exit, runs, edits, faults, disturbed, made>>

Targets == Dirs \X Bases
Extensions == {"hpp", "cpp"}
Absent == [of |-> Missing, state |-> "absent"]
Empty == [of |-> Missing, state |-> "empty"]

InputNames == {c.input : c \in Commands} \ {Nothing}
NoCommand == CHOOSE c \in Commands : TRUE

Init ==
  /\ inputs \in [InputNames -> Revisions \cup {Missing}]
  /\ dirs \in [Dirs -> {Missing, "directory", "file"}]
  /\ files = [t \in Targets |-> [ext \in Extensions |-> Absent]]
  /\ pc = [p \in Procs |-> "idle"]
  /\ cmd = [p \in Procs |-> NoCommand]
  /\ got = [p \in Procs |-> Missing]
  /\ exit = [p \in Procs |-> Missing]
  /\ runs = 0 /\ edits = 0 /\ faults = 0
  /\ disturbed = {}
  /\ made = [t \in Targets |-> Missing]

-----------------------------------------------------------------------------
At(p, place) == pc[p] = place
Go(p, place) == pc' = [pc EXCEPT ![p] = place] /\ UNCHANGED exit
Exit(p, code) == pc' = [pc EXCEPT ![p] = "idle"] /\ exit' = [exit EXCEPT ![p] = code]

Fault == faults < MaxFaults /\ faults' = faults + 1

\* base_name: the -f option, or else the namespace of the schema.
base_name(p) == IF cmd[p].filename # Nothing THEN cmd[p].filename ELSE got[p].namespace
Target(p) == <<cmd[p].dir, base_name(p)>>

\* From opening the header to closing the source.
Writing == {p \in Procs : pc[p] \in {"header", "open_source", "source"}}
Rivals(p) == {q \in Writing \ {p} : Target(q) = Target(p)}

Made(p, r) == made' = [made EXCEPT ![Target(p)] = r]

bounds == <<runs, edits>>
outside == <<inputs, cmd, bounds>>
output == <<dirs, files, disturbed, made>>

-----------------------------------------------------------------------------
(* The world around the compiler *)

Start(p, c) ==
  /\ At(p, "idle")
  /\ runs < MaxRuns
  /\ runs' = runs + 1
  /\ cmd' = [cmd EXCEPT ![p] = c]
  /\ got' = [got EXCEPT ![p] = Missing]
  /\ pc' = [pc EXCEPT ![p] = "main"]
  /\ exit' = [exit EXCEPT ![p] = Missing]
  /\ disturbed' = disturbed \ {p}
  /\ UNCHANGED <<inputs, dirs, files, edits, faults, made>>

Edit(name, r) ==
  /\ edits < MaxEdits
  /\ r # inputs[name]
  /\ inputs' = [inputs EXCEPT ![name] = r]
  /\ edits' = edits + 1
  /\ UNCHANGED <<dirs, files, pc, cmd, got, exit, runs, faults, disturbed, made>>

-----------------------------------------------------------------------------
(* main and the first half of compile_schema *)

main(p) ==
  /\ At(p, "main")
  /\ LET c == cmd[p]
     IN CASE ~c.parsed -> Exit(p, 1)
          [] c.parsed /\ (c.help \/ c.version) -> Exit(p, 0)
          [] c.parsed /\ ~c.help /\ ~c.version /\ c.input = Nothing -> Exit(p, 1)
          [] OTHER -> Go(p, "read")
  /\ UNCHANGED <<outside, output, got, faults>>

\* A mistake: an input file that cannot be opened is taken for an empty one.
read_file_unchecked(p) ==
  /\ At(p, "read")
  /\ got' = [got EXCEPT ![p] = inputs[cmd[p].input]]
  /\ Go(p, "compile")
  /\ UNCHANGED <<outside, output, faults>>

read_file(p) ==
  /\ At(p, "read")
  /\ got' = [got EXCEPT ![p] = inputs[cmd[p].input]]
  /\ IF inputs[cmd[p].input] = Missing THEN Exit(p, 1) ELSE Go(p, "compile")
  /\ UNCHANGED <<outside, output, faults>>

\* Lexer, Parser, Validator and CodeGenerator; an exception ends in main.
Compile(p) ==
  /\ At(p, "compile")
  /\ IF got[p].parses /\ got[p].valid THEN Go(p, "exists") ELSE Exit(p, 1)
  /\ UNCHANGED <<outside, output, got, faults>>

\* The test for an error behind exists() cannot succeed: no error comes with true.
Exists(p) ==
  /\ At(p, "exists")
  /\ Go(p, IF dirs[cmd[p].dir] = Missing THEN "create" ELSE "open_header")
  /\ UNCHANGED <<outside, output, got, faults>>

\* A mistake: a directory that exists by now counts as a failure.
create_directories_once(p) ==
  /\ At(p, "create")
  /\ IF dirs[cmd[p].dir] = Missing
     THEN dirs' = [dirs EXCEPT ![cmd[p].dir] = "directory"] /\ Go(p, "open_header")
     ELSE UNCHANGED dirs /\ Exit(p, 1)
  /\ UNCHANGED <<outside, files, disturbed, made, got, faults>>

\* create_directories succeeds, finds that another process was faster (false, but
\* no error code), or fails.
create_directories(p) ==
  /\ At(p, "create")
  /\ \/ /\ dirs' = [dirs EXCEPT ![cmd[p].dir] = "directory"]
        /\ Go(p, "open_header")
        /\ UNCHANGED faults
     \/ Fault /\ Exit(p, 1) /\ UNCHANGED dirs
  /\ UNCHANGED <<outside, files, disturbed, made, got>>

-----------------------------------------------------------------------------
(* write_file, twice *)

\* The stream truncates the file when it is opened.
Truncate(p, ext) == files' = [files EXCEPT ![Target(p)][ext] = Empty]

\* Two processes write the same pair from here on.
Meet(p) == disturbed' = IF Rivals(p) = {} THEN disturbed ELSE disturbed \cup Rivals(p) \cup {p}

open_header(p) ==
  /\ At(p, "open_header")
  /\ \/ /\ dirs[cmd[p].dir] = "directory"
        /\ Truncate(p, "hpp")
        /\ Meet(p)
        /\ Go(p, "header")
        /\ UNCHANGED faults
     \/ /\ dirs[cmd[p].dir] = "file"
        /\ Exit(p, 1)
        /\ UNCHANGED <<files, disturbed, faults>>
     \/ Fault /\ Exit(p, 1) /\ UNCHANGED <<files, disturbed>>
  /\ UNCHANGED <<outside, dirs, made, got>>

\* What can be in a file after p wrote it: all of what p generated, or a mixture
\* when another process wrote something else since p opened the file.
Written(p, ext) ==
  LET there == files[Target(p)][ext]
      mine == [of |-> got[p], state |-> "whole"]
  IN IF there = Empty \/ (there.of = got[p] /\ there.state # "mixed")
     THEN {mine}
     ELSE {mine, [mine EXCEPT !.state = "mixed"]}

Short(p, ext) == files' = [files EXCEPT ![Target(p)][ext] = [of |-> got[p], state |-> "short"]]

\* The result of the write is not tested: with a full disk it is short.
Write(p, ext) ==
  \/ /\ \E content \in Written(p, ext) : files' = [files EXCEPT ![Target(p)][ext] = content]
     /\ UNCHANGED <<disturbed, faults>>
  \/ /\ Fault
     /\ Short(p, ext)
     /\ disturbed' = disturbed \cup {p}

write_header(p) ==
  /\ At(p, "header")
  /\ Write(p, "hpp")
  /\ Go(p, "open_source")
  /\ UNCHANGED <<outside, dirs, made, got>>

\* A mistake: the source is opened without truncating it.
open_source_keeps(p) ==
  /\ At(p, "open_source")
  /\ \/ Go(p, "source") /\ UNCHANGED <<made, faults>>
     \/ Fault /\ Exit(p, 1) /\ Made(p, Missing)
  /\ UNCHANGED <<outside, dirs, files, disturbed, got>>

open_source(p) ==
  /\ At(p, "open_source")
  /\ \/ Truncate(p, "cpp") /\ Go(p, "source") /\ UNCHANGED <<made, faults>>
     \/ Fault /\ Exit(p, 1) /\ Made(p, Missing) /\ UNCHANGED files
  /\ UNCHANGED <<outside, dirs, disturbed, got>>

write_source(p) ==
  /\ At(p, "source")
  /\ Write(p, "cpp")
  /\ Exit(p, 0)
  /\ Made(p, IF p \in disturbed' THEN Missing ELSE got[p])
  /\ UNCHANGED <<outside, dirs, got>>

\* A process may be killed anywhere, also in the middle of a write.
Kill(p) ==
  /\ pc[p] # "idle"
  /\ Fault
  /\ pc' = [pc EXCEPT ![p] = "idle"]
  /\ IF p \in Writing THEN Made(p, Missing) ELSE UNCHANGED made
  /\ \/ UNCHANGED files
     \/ At(p, "header") /\ Short(p, "hpp")
     \/ At(p, "source") /\ Short(p, "cpp")
  /\ UNCHANGED <<inputs, dirs, cmd, got, exit, runs, edits, disturbed>>

Step(p) ==
  \/ main(p) \/ read_file(p) \/ Compile(p) \/ Exists(p) \/ create_directories(p)
  \/ open_header(p) \/ write_header(p) \/ open_source(p) \/ write_source(p)

Next ==
  \/ \E p \in Procs : (\E c \in Commands : Start(p, c)) \/ Kill(p) \/ Step(p)
  \/ \E name \in InputNames, r \in Revisions : Edit(name, r)

Spec == Init /\ [][Next]_vars

-----------------------------------------------------------------------------
Contents == {Absent, Empty} \cup [of : Revisions, state : {"whole", "short", "mixed"}]

Places == {"idle", "main", "read", "compile", "exists", "create", "open_header", "header",
           "open_source", "source"}

TypeOK ==
  /\ inputs \in [InputNames -> Revisions \cup {Missing}]
  /\ dirs \in [Dirs -> {Missing, "directory", "file"}]
  /\ files \in [Targets -> [Extensions -> Contents]]
  /\ pc \in [Procs -> Places]
  /\ cmd \in [Procs -> Commands]
  /\ got \in [Procs -> Revisions \cup {Missing}]
  /\ exit \in [Procs -> {0, 1, Missing}]
  /\ runs \in Nat /\ edits \in Nat /\ faults \in Nat
  /\ disturbed \subseteq Procs
  /\ made \in [Targets -> Revisions \cup {Missing}]
  /\ \A p \in Procs : pc[p] \notin {"idle", "main", "read"} => got[p] \in Revisions
  /\ \A p \in Writing : dirs[cmd[p].dir] = "directory"

\* Between compilations the header and the source of a target belong together and
\* are complete, generated from the revision that the last process to write them
\* read, whatever failed, was killed or was edited before or since; the exceptions
\* are a last writer that was killed or could not open the source, that a full
\* disk cut short, or that wrote while another did.  A later undisturbed run
\* repairs each of them.
OutputsBelongTogether ==
  \A t \in Targets :
    (made[t] # Missing /\ \A p \in Writing : Target(p) # t) =>
      \A ext \in Extensions : files[t][ext] = [of |-> made[t], state |-> "whole"]

\* As long as no call of the system fails, the compiler refuses only what it must:
\* a bad command line, an input that is missing or wrong, or an output directory
\* that is a file.  Processes that create the same directory at the same time do
\* not fail because of each other.
RefusalsJustified ==
  \A p \in Procs : (exit[p] = 1 /\ faults = 0) =>
    \/ ~cmd[p].parsed
    \/ cmd[p].input = Nothing
    \/ got[p] = Missing
    \/ ~(got[p].parses /\ got[p].valid)
    \/ dirs[cmd[p].dir] = "file"
=============================================================================
