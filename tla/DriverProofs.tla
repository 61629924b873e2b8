---------------------------- MODULE DriverProofs ----------------------------
(***************************************************************************)
(* Theorems about Driver for any number of processes, directories, file    *)
(* names and revisions, and any bounds on runs, edits and faults.          *)
(***************************************************************************)
EXTENDS Driver, TLAPS

\* Processes that write the same pair of files at the same time have both been
\* marked as disturbed.
RivalsDisturbed ==
  \A p, q \in Writing : p # q /\ Target(p) = Target(q) => p \in disturbed /\ q \in disturbed

Whole(r) == [of |-> r, state |-> "whole"]

\* What a process that nobody disturbs has achieved so far.
Progress(p) ==
  /\ pc[p] = "header" => files[Target(p)]["hpp"] = Empty
  /\ pc[p] \in {"open_source", "source"} => files[Target(p)]["hpp"] = Whole(got[p])
  /\ pc[p] = "source" => files[Target(p)]["cpp"] = Empty

UndisturbedProgress == \A p \in Writing \ disturbed : Progress(p)

\* An exit code belongs to a process that has ended.
ExitedIsIdle == \A p \in Procs : exit[p] # Missing => pc[p] = "idle"

\* main() goes on only with an input file.
InputNamed == \A p \in Procs : pc[p] = "read" => cmd[p].input # Nothing

\* A directory that was missing is not taken by a file before it is created, and
\* it is there when the header is opened.
DirectoryComing ==
  \A p \in Procs :
    /\ pc[p] = "create" => dirs[cmd[p].dir] # "file"
    /\ pc[p] = "open_header" => dirs[cmd[p].dir] # Missing

IInv ==
  /\ TypeOK
  /\ RivalsDisturbed
  /\ UndisturbedProgress
  /\ OutputsBelongTogether
  /\ ExitedIsIdle
  /\ InputNamed
  /\ DirectoryComing
  /\ RefusalsJustified
-----------------------------------------------------------------------------
\* The two files a writing process is at work on are among the targets.
LEMMA TargetType ==
  ASSUME TypeOK, NEW p \in Procs, got[p] \in Revisions
  PROVE  Target(p) \in Targets
  BY CommandsAssumption, RevisionsAssumption DEF TypeOK, Target, Targets, base_name

LEMMA WriterTarget ==
  ASSUME TypeOK, NEW p \in Writing
  PROVE  /\ p \in Procs /\ got[p] \in Revisions /\ got[p] # Missing
         /\ Target(p) \in Targets
  BY TargetType, MissingAssumption DEF TypeOK, Writing

LEMMA InitInv == Init => IInv
<1> SUFFICES ASSUME Init PROVE IInv
  OBVIOUS
<1>1. NoCommand \in Commands
  BY CommandsAssumption DEF NoCommand
<1>2. Writing = {}
  BY DEF Init, Writing
<1>3. TypeOK
  BY <1>1, <1>2 DEF Init, TypeOK, Contents, Places
<1>4. OutputsBelongTogether
  BY DEF Init, OutputsBelongTogether
<1>5. ExitedIsIdle /\ InputNamed /\ DirectoryComing
  BY DEF Init, ExitedIsIdle, InputNamed, DirectoryComing
<1>6. RefusalsJustified
  BY MissingAssumption DEF Init, RefusalsJustified
<1> QED
  BY <1>2, <1>3, <1>4, <1>5, <1>6 DEF IInv, RivalsDisturbed, UndisturbedProgress

\* A step that leaves the files and the writing processes alone.
LEMMA WritersFrame ==
  ASSUME IInv,
         UNCHANGED <<files, made>>,
         Writing' = Writing,
         \A q \in Writing : cmd'[q] = cmd[q] /\ got'[q] = got[q] /\ pc'[q] = pc[q],
         \A q \in Writing : q \in disturbed' <=> q \in disturbed
  PROVE  RivalsDisturbed' /\ UndisturbedProgress' /\ OutputsBelongTogether'
<1>1. \A q \in Writing : Target(q)' = Target(q)
  BY DEF Target, base_name
<1>2. RivalsDisturbed'
  BY <1>1 DEF IInv, RivalsDisturbed
<1>3. UndisturbedProgress'
  <2> SUFFICES ASSUME NEW q \in Writing, q \notin disturbed PROVE Progress(q)'
    BY DEF UndisturbedProgress
  <2>1. Progress(q)
    BY DEF IInv, UndisturbedProgress
  <2>2. Target(q)' = Target(q) /\ got'[q] = got[q] /\ pc'[q] = pc[q] /\ files' = files
    BY <1>1
  <2> QED
    BY <2>1, <2>2 DEF Progress, Whole, Empty
<1>4. OutputsBelongTogether'
  BY <1>1 DEF IInv, OutputsBelongTogether
<1> QED
  BY <1>2, <1>3, <1>4

-----------------------------------------------------------------------------
(* The steps that touch no output file *)

LEMMA StartInv ==
  ASSUME IInv, NEW p \in Procs, NEW c \in Commands, Start(p, c)
  PROVE  IInv'
<1>1. Writing' = Writing /\ p \notin Writing
  BY DEF IInv, TypeOK, Start, At, Writing
<1>2. RivalsDisturbed' /\ UndisturbedProgress' /\ OutputsBelongTogether'
  <2>1. \A q \in Writing : cmd'[q] = cmd[q] /\ got'[q] = got[q] /\ pc'[q] = pc[q]
    BY <1>1 DEF IInv, TypeOK, Start, Writing
  <2>2. \A q \in Writing : q \in disturbed' <=> q \in disturbed
    BY <1>1 DEF Start
  <2> QED
    BY <1>1, <2>1, <2>2, WritersFrame DEF Start
<1>3. TypeOK'
  <2>1. \A q \in Writing' : dirs'[cmd'[q].dir] = "directory"
    BY <1>1 DEF IInv, TypeOK, Start, Writing
  <2>2. \A q \in Procs : pc'[q] \notin {"idle", "main", "read"} => got'[q] \in Revisions
    BY DEF IInv, TypeOK, Start
  <2>3. cmd' \in [Procs -> Commands] /\ got' \in [Procs -> Revisions \cup {Missing}]
    BY DEF IInv, TypeOK, Start
  <2>4. pc' \in [Procs -> Places] /\ exit' \in [Procs -> {0, 1, Missing}]
    BY DEF IInv, TypeOK, Start, Places
  <2>5. runs' \in Nat /\ disturbed' \subseteq Procs
    BY DEF IInv, TypeOK, Start
  <2> QED
    BY <2>1, <2>2, <2>3, <2>4, <2>5 DEF IInv, TypeOK, Start
<1>4. ExitedIsIdle' /\ InputNamed' /\ DirectoryComing'
  BY DEF IInv, TypeOK, ExitedIsIdle, InputNamed, DirectoryComing, Start
<1>5. RefusalsJustified'
  BY MissingAssumption DEF IInv, TypeOK, RefusalsJustified, Start
<1> QED
  BY <1>2, <1>3, <1>4, <1>5 DEF IInv

LEMMA EditInv ==
  ASSUME IInv, NEW name \in InputNames, NEW r \in Revisions, Edit(name, r)
  PROVE  IInv'
<1>1. Writing' = Writing
  BY DEF Edit, Writing
<1>2. RivalsDisturbed' /\ UndisturbedProgress' /\ OutputsBelongTogether'
  BY <1>1, WritersFrame DEF Edit
<1>3. TypeOK'
  BY <1>1 DEF IInv, TypeOK, Edit
<1>4. ExitedIsIdle' /\ InputNamed' /\ DirectoryComing' /\ RefusalsJustified'
  BY DEF IInv, ExitedIsIdle, InputNamed, DirectoryComing, RefusalsJustified, Edit
<1> QED
  BY <1>2, <1>3, <1>4 DEF IInv

\* A process that is not writing goes on to another place or ends, and leaves the
\* output files, the commands and the bounds alone.
LEMMA QuietFrame ==
  ASSUME IInv, NEW p \in Procs, p \notin Writing, p \notin Writing',
         \A q \in Procs \ {p} : pc'[q] = pc[q] /\ got'[q] = got[q],
         UNCHANGED <<cmd, files, disturbed, made>>
  PROVE  Writing' = Writing /\ RivalsDisturbed' /\ UndisturbedProgress' /\ OutputsBelongTogether'
<1>1. Writing' = Writing
  BY DEF Writing
<1>2. \A q \in Writing : q \in Procs \ {p}
  BY DEF Writing
<1> QED
  BY <1>1, <1>2, WritersFrame

LEMMA MainInv ==
  ASSUME IInv, NEW p \in Procs, main(p)
  PROVE  IInv'
<1>1. \/ Exit(p, 0) /\ cmd[p].parsed
      \/ Exit(p, 1) /\ (~cmd[p].parsed \/ cmd[p].input = Nothing)
      \/ Go(p, "read") /\ cmd[p].input # Nothing
  BY DEF main
<1>2. /\ pc[p] = "main"
      /\ UNCHANGED <<inputs, dirs, files, cmd, got, runs, edits, faults, disturbed, made>>
  BY DEF main, At, outside, output, bounds
<1>3. /\ pc' \in [Procs -> Places] /\ exit' \in [Procs -> {0, 1, Missing}]
      /\ pc'[p] \in {"idle", "read"}
      /\ \A q \in Procs \ {p} : pc'[q] = pc[q] /\ exit'[q] = exit[q]
  BY <1>1 DEF IInv, TypeOK, Places, Exit, Go
<1>4. Writing' = Writing /\ RivalsDisturbed' /\ UndisturbedProgress' /\ OutputsBelongTogether'
  BY <1>2, <1>3, QuietFrame DEF Writing
<1>5. TypeOK'
  BY <1>2, <1>3, <1>4 DEF IInv, TypeOK
<1>6. ExitedIsIdle'
  BY <1>1, <1>2, <1>3 DEF IInv, TypeOK, ExitedIsIdle, Exit, Go
<1>7. InputNamed'
  <2>1. pc'[p] = "read" => cmd[p].input # Nothing
    BY <1>1 DEF IInv, TypeOK, Exit, Go
  <2> QED
    BY <1>2, <1>3, <2>1 DEF IInv, InputNamed
<1>8. DirectoryComing'
  BY <1>2, <1>3 DEF IInv, DirectoryComing
<1>9. RefusalsJustified'
  BY <1>1, <1>2, <1>3 DEF IInv, TypeOK, RefusalsJustified, Exit, Go
<1> QED
  BY <1>4, <1>5, <1>6, <1>7, <1>8, <1>9 DEF IInv

LEMMA ReadFileInv ==
  ASSUME IInv, NEW p \in Procs, read_file(p)
  PROVE  IInv'
<1> DEFINE read == inputs[cmd[p].input]
<1>1. /\ pc[p] = "read"
      /\ got' = [got EXCEPT ![p] = read]
      /\ UNCHANGED <<inputs, dirs, files, cmd, runs, edits, faults, disturbed, made>>
  BY DEF read_file, At, outside, output, bounds
<1>2. \/ Exit(p, 1) /\ read = Missing
      \/ Go(p, "compile") /\ read # Missing
  BY DEF read_file
<1>3. read \in Revisions \cup {Missing}
  <2>1. cmd[p].input \in InputNames
    BY <1>1 DEF IInv, TypeOK, InputNamed, InputNames
  <2> QED
    BY <2>1 DEF IInv, TypeOK
<1> HIDE DEF read
<1>4. /\ pc' \in [Procs -> Places] /\ exit' \in [Procs -> {0, 1, Missing}]
      /\ got' \in [Procs -> Revisions \cup {Missing}]
      /\ pc'[p] \in {"idle", "compile"} /\ got'[p] = read
      /\ \A q \in Procs \ {p} : pc'[q] = pc[q] /\ exit'[q] = exit[q] /\ got'[q] = got[q]
  <2>1. /\ pc' \in [Procs -> Places] /\ exit' \in [Procs -> {0, 1, Missing}]
        /\ pc'[p] \in {"idle", "compile"}
        /\ \A q \in Procs \ {p} : pc'[q] = pc[q] /\ exit'[q] = exit[q]
    BY <1>2 DEF IInv, TypeOK, Places, Exit, Go
  <2>2. /\ got' \in [Procs -> Revisions \cup {Missing}] /\ got'[p] = read
        /\ \A q \in Procs \ {p} : got'[q] = got[q]
    BY <1>1, <1>3 DEF IInv, TypeOK
  <2> QED
    BY <2>1, <2>2, Zenon
<1>5. Writing' = Writing /\ RivalsDisturbed' /\ UndisturbedProgress' /\ OutputsBelongTogether'
  BY <1>1, <1>4, QuietFrame DEF Writing
<1>6. TypeOK'
  <2>1. pc'[p] = "compile" => read \in Revisions
    BY <1>2, <1>3 DEF IInv, TypeOK, Exit, Go
  <2> QED
    BY <1>1, <1>4, <1>5, <2>1 DEF IInv, TypeOK
<1>7. ExitedIsIdle'
  BY <1>1, <1>2, <1>4 DEF IInv, TypeOK, ExitedIsIdle, Exit, Go
<1>8. InputNamed' /\ DirectoryComing'
  BY <1>1, <1>4, SMTT(20) DEF IInv, InputNamed, DirectoryComing
<1>9. RefusalsJustified'
  <2>1. exit'[p] = 1 => got'[p] = Missing
    BY <1>1, <1>2, <1>4, MissingAssumption DEF IInv, TypeOK, ExitedIsIdle, Exit, Go
  <2> QED
    BY <1>1, <1>4, <2>1 DEF IInv, RefusalsJustified
<1> QED
  BY <1>5, <1>6, <1>7, <1>8, <1>9 DEF IInv

LEMMA CompileInv ==
  ASSUME IInv, NEW p \in Procs, Compile(p)
  PROVE  IInv'
<1>1. /\ pc[p] = "compile"
      /\ UNCHANGED <<inputs, dirs, files, cmd, got, runs, edits, faults, disturbed, made>>
  BY DEF Compile, At, outside, output, bounds
<1>2. (Exit(p, 1) /\ ~(got[p].parses /\ got[p].valid)) \/ Go(p, "exists")
  BY DEF Compile
<1>3. /\ pc' \in [Procs -> Places] /\ exit' \in [Procs -> {0, 1, Missing}]
      /\ pc'[p] \in {"idle", "exists"}
      /\ \A q \in Procs \ {p} : pc'[q] = pc[q] /\ exit'[q] = exit[q]
  BY <1>2 DEF IInv, TypeOK, Places, Exit, Go
<1>4. Writing' = Writing /\ RivalsDisturbed' /\ UndisturbedProgress' /\ OutputsBelongTogether'
  BY <1>1, <1>3, QuietFrame DEF Writing
<1>5. TypeOK'
  BY <1>1, <1>3, <1>4 DEF IInv, TypeOK
<1>6. ExitedIsIdle'
  BY <1>1, <1>2, <1>3 DEF IInv, TypeOK, ExitedIsIdle, Exit, Go
<1>7. InputNamed' /\ DirectoryComing'
  BY <1>1, <1>3, SMTT(20) DEF IInv, InputNamed, DirectoryComing
<1>8. RefusalsJustified'
  BY <1>1, <1>2, <1>3 DEF IInv, TypeOK, RefusalsJustified, Exit, Go
<1> QED
  BY <1>4, <1>5, <1>6, <1>7, <1>8 DEF IInv

LEMMA ExistsInv ==
  ASSUME IInv, NEW p \in Procs, Exists(p)
  PROVE  IInv'
<1>1. /\ pc[p] = "exists"
      /\ UNCHANGED <<inputs, dirs, files, cmd, got, exit, runs, edits, faults, disturbed, made>>
  BY DEF Exists, Go, At, outside, output, bounds
<1>2. \/ Go(p, "create") /\ dirs[cmd[p].dir] = Missing
      \/ Go(p, "open_header") /\ dirs[cmd[p].dir] # Missing
  BY DEF Exists
<1>3. /\ pc' \in [Procs -> Places]
      /\ pc'[p] \in {"create", "open_header"}
      /\ \A q \in Procs \ {p} : pc'[q] = pc[q]
  BY <1>2 DEF IInv, TypeOK, Places, Go
<1>4. Writing' = Writing /\ RivalsDisturbed' /\ UndisturbedProgress' /\ OutputsBelongTogether'
  BY <1>1, <1>3, QuietFrame DEF Writing
<1>5. TypeOK'
  BY <1>1, <1>3, <1>4 DEF IInv, TypeOK
<1>6. ExitedIsIdle' /\ InputNamed'
  BY <1>1, <1>3 DEF IInv, ExitedIsIdle, InputNamed
<1>7. DirectoryComing'
  BY <1>1, <1>2, <1>3, MissingAssumption DEF IInv, TypeOK, DirectoryComing, Go
<1>8. RefusalsJustified'
  BY <1>1 DEF IInv, RefusalsJustified
<1> QED
  BY <1>4, <1>5, <1>6, <1>7, <1>8 DEF IInv

LEMMA CreateDirectoriesInv ==
  ASSUME IInv, NEW p \in Procs, create_directories(p)
  PROVE  IInv'
<1>1. /\ pc[p] = "create"
      /\ UNCHANGED <<inputs, files, cmd, got, runs, edits, disturbed, made>>
  BY DEF create_directories, At, outside, bounds
<1>2. \/ dirs' = [dirs EXCEPT ![cmd[p].dir] = "directory"] /\ Go(p, "open_header") /\ faults' = faults
      \/ Exit(p, 1) /\ faults' = faults + 1 /\ dirs' = dirs
  BY DEF create_directories, Fault
<1>3. /\ pc' \in [Procs -> Places] /\ exit' \in [Procs -> {0, 1, Missing}]
      /\ pc'[p] \in {"idle", "open_header"}
      /\ \A q \in Procs \ {p} : pc'[q] = pc[q] /\ exit'[q] = exit[q]
  BY <1>2 DEF IInv, TypeOK, Places, Exit, Go
<1>4. Writing' = Writing /\ RivalsDisturbed' /\ UndisturbedProgress' /\ OutputsBelongTogether'
  BY <1>1, <1>3, QuietFrame DEF Writing
<1>5. /\ dirs' \in [Dirs -> {Missing, "directory", "file"}]
      /\ \A x \in Dirs : dirs'[x] = dirs[x] \/ (dirs[x] # "file" /\ dirs'[x] = "directory")
      /\ pc'[p] = "open_header" => dirs'[cmd[p].dir] = "directory"
  BY <1>1, <1>2, CommandsAssumption, SMTT(20) DEF IInv, TypeOK, DirectoryComing, Exit
<1>6. TypeOK'
  <2>1. \A q \in Writing' : dirs'[cmd'[q].dir] = "directory"
    BY <1>1, <1>4, <1>5, CommandsAssumption, SMTT(20) DEF IInv, TypeOK, Writing
  <2>2. faults' \in Nat
    <3>1. faults \in Nat
      BY DEF IInv, TypeOK
    <3> QED
      BY <1>2, <3>1
  <2> QED
    BY <1>1, <1>3, <1>5, <2>1, <2>2 DEF IInv, TypeOK
<1>7. ExitedIsIdle' /\ InputNamed'
  BY <1>1, <1>2, <1>3, SMTT(20) DEF IInv, TypeOK, ExitedIsIdle, InputNamed, Exit, Go
<1>8. DirectoryComing'
  <2> SUFFICES ASSUME NEW q \in Procs
               PROVE  /\ pc'[q] = "create" => dirs'[cmd[q].dir] # "file"
                      /\ pc'[q] = "open_header" => dirs'[cmd[q].dir] # Missing
    BY <1>1 DEF DirectoryComing
  <2>1. cmd[q].dir \in Dirs
    BY CommandsAssumption DEF IInv, TypeOK
  <2>2. CASE q = p
    BY <1>3, <1>5, <2>2, MissingAssumption
  <2>3. CASE q # p
    BY <1>3, <1>5, <2>1, <2>3, MissingAssumption DEF IInv, DirectoryComing
  <2> QED
    BY <2>2, <2>3
<1>9. RefusalsJustified'
  <2>1. \A q \in Procs : exit'[q] = 1 /\ faults' = 0 => exit[q] = 1 /\ faults = 0
    <3>1. faults \in Nat /\ DOMAIN exit = Procs
      BY DEF IInv, TypeOK
    <3> QED
      BY <1>2, <3>1 DEF Exit, Go
  <2>2. \A q \in Procs : dirs[cmd[q].dir] = "file" => dirs'[cmd[q].dir] = "file"
    BY <1>5, CommandsAssumption DEF IInv, TypeOK
  <2> QED
    BY <1>1, <2>1, <2>2 DEF IInv, RefusalsJustified
<1> QED
  BY <1>4, <1>6, <1>7, <1>8, <1>9 DEF IInv

-----------------------------------------------------------------------------
(* The steps that write *)

\* One of a pair of files gets new content.
LEMMA FileUpdate ==
  ASSUME TypeOK, NEW t \in Targets, NEW e \in Extensions, NEW c \in Contents,
         files' = [files EXCEPT ![t][e] = c]
  PROVE  /\ files' \in [Targets -> [Extensions -> Contents]]
         /\ files'[t][e] = c
         /\ \A x \in Extensions \ {e} : files'[t][x] = files[t][x]
         /\ \A u \in Targets \ {t} : files'[u] = files[u]
  BY DEF TypeOK

\* What a step of process p on its own pair of files means for everybody: the
\* others keep what they have if those who write the same pair are disturbed.
LEMMA PairStep ==
  ASSUME IInv, NEW p \in Procs, Target(p) \in Targets,
         cmd' = cmd, got' = got,
         \A q \in Procs \ {p} : pc'[q] = pc[q],
         \A t \in Targets \ {Target(p)} : files'[t] = files[t] /\ made'[t] = made[t],
         disturbed \subseteq disturbed',
         \A q \in Writing \ {p} : Target(q) = Target(p) =>
           q \in disturbed' /\ (p \in Writing' => p \in disturbed'),
         p \in Writing' /\ p \notin disturbed' => Progress(p)',
         (/\ p \notin Writing' /\ made'[Target(p)] # Missing
          /\ \A q \in Writing \ {p} : Target(q) # Target(p)) =>
             \A ext \in Extensions : files'[Target(p)][ext] = Whole(made'[Target(p)])
  PROVE  RivalsDisturbed' /\ UndisturbedProgress' /\ OutputsBelongTogether'
<1>1. \A q \in Procs : Target(q)' = Target(q)
  BY DEF Target, base_name
<1>2. \A q \in Procs \ {p} : q \in Writing' <=> q \in Writing
  BY DEF Writing
<1>3. Writing \subseteq Procs /\ Writing' \subseteq Procs
  BY DEF Writing
<1>4. RivalsDisturbed'
  <2> SUFFICES ASSUME NEW q \in Writing', NEW r \in Writing', q # r, Target(q) = Target(r)
               PROVE  q \in disturbed' /\ r \in disturbed'
    BY <1>1, <1>3 DEF RivalsDisturbed
  <2>1. CASE q # p /\ r # p
    BY <2>1, <1>2, <1>3 DEF IInv, RivalsDisturbed
  <2>2. CASE q = p \/ r = p
    BY <2>2, <1>2, <1>3
  <2> QED
    BY <2>1, <2>2
<1>5. UndisturbedProgress'
  <2> SUFFICES ASSUME NEW q \in Writing', q \notin disturbed' PROVE Progress(q)'
    BY DEF UndisturbedProgress
  <2>1. CASE q # p
    <3>1. q \in Writing /\ q \notin disturbed /\ Target(q) # Target(p) /\ q \in Procs
      BY <2>1, <1>2, <1>3
    <3>2. Progress(q)
      BY <3>1 DEF IInv, UndisturbedProgress
    <3>3. Target(q) \in Targets
      BY <3>1, WriterTarget DEF IInv
    <3>4. pc'[q] = pc[q] /\ files'[Target(q)] = files[Target(q)] /\ Target(q)' = Target(q)
      BY <2>1, <1>1, <3>1, <3>3
    <3> QED
      BY <3>2, <3>4 DEF Progress, Whole, Empty
  <2> QED
    BY <2>1
<1>6. OutputsBelongTogether'
  <2> SUFFICES ASSUME NEW t \in Targets, made'[t] # Missing,
                      \A q \in Writing' : Target(q) # t
               PROVE  \A ext \in Extensions : files'[t][ext] = Whole(made'[t])
    BY <1>1, <1>3 DEF OutputsBelongTogether, Whole
  <2>1. CASE t = Target(p)
    <3>1. p \notin Writing' /\ \A q \in Writing \ {p} : Target(q) # Target(p)
      BY <2>1, <1>2, <1>3
    <3> QED
      BY <2>1, <3>1
  <2>2. CASE t # Target(p)
    <3>1. \A q \in Writing : Target(q) # t
      BY <2>2, <1>2, <1>3
    <3>2. files'[t] = files[t] /\ made'[t] = made[t]
      BY <2>2
    <3> QED
      BY <3>1, <3>2 DEF IInv, OutputsBelongTogether, Whole
  <2> QED
    BY <2>1, <2>2
<1> QED
  BY <1>4, <1>5, <1>6

\* A step of process p that leaves the commands, the revisions read and the
\* directories alone, and ends the process if it gives an exit code.
LEMMA CodesFrame ==
  ASSUME IInv, NEW p \in Procs,
         dirs' = dirs, cmd' = cmd, got' = got,
         \A q \in Procs \ {p} : pc'[q] = pc[q] /\ exit'[q] = exit[q],
         pc'[p] \notin {"read", "create", "open_header"},
         exit'[p] # Missing => pc'[p] = "idle",
         faults' = 0 => faults = 0,
         exit'[p] = 1 /\ faults' = 0 => exit[p] = 1 \/ dirs[cmd[p].dir] = "file"
  PROVE  ExitedIsIdle' /\ InputNamed' /\ DirectoryComing' /\ RefusalsJustified'
<1>1. ExitedIsIdle'
  BY DEF IInv, ExitedIsIdle
<1>2. InputNamed'
  BY DEF IInv, InputNamed
<1>3. DirectoryComing'
  BY DEF IInv, DirectoryComing
<1>4. RefusalsJustified'
  <2> SUFFICES ASSUME NEW q \in Procs, exit'[q] = 1, faults' = 0
               PROVE  \/ exit[q] = 1 /\ faults = 0
                      \/ dirs[cmd[q].dir] = "file"
    BY DEF IInv, RefusalsJustified
  <2> QED
    OBVIOUS
<1> QED
  BY <1>1, <1>2, <1>3, <1>4

LEMMA OpenHeaderInv ==
  ASSUME IInv, NEW p \in Procs, open_header(p)
  PROVE  IInv'
<1>1. /\ pc[p] = "open_header"
      /\ UNCHANGED <<inputs, dirs, cmd, got, runs, edits, made>>
  BY DEF open_header, At, outside, bounds
<1>2. /\ p \notin Writing /\ got[p] \in Revisions /\ Target(p) \in Targets
      /\ faults \in Nat /\ exit[p] = Missing
  BY <1>1, TargetType, SMTT(20) DEF IInv, TypeOK, Writing, ExitedIsIdle
<1>3. CASE /\ dirs[cmd[p].dir] = "directory"
           /\ Truncate(p, "hpp") /\ Meet(p) /\ Go(p, "header") /\ faults' = faults
  <2>1. /\ pc' \in [Procs -> Places] /\ pc'[p] = "header"
        /\ \A q \in Procs \ {p} : pc'[q] = pc[q]
        /\ exit' = exit /\ p \in Writing'
    BY <1>3 DEF IInv, TypeOK, Places, Go, Writing
  <2>2. /\ files' \in [Targets -> [Extensions -> Contents]]
        /\ files'[Target(p)]["hpp"] = Empty
        /\ \A t \in Targets \ {Target(p)} : files'[t] = files[t]
    <3>1. Empty \in Contents /\ "hpp" \in Extensions
      BY DEF Contents, Extensions
    <3>2. files' = [files EXCEPT ![Target(p)]["hpp"] = Empty]
      BY <1>3 DEF Truncate
    <3> QED
      BY <1>2, <3>1, <3>2, FileUpdate, Zenon DEF IInv
  <2>3. /\ disturbed \subseteq disturbed' /\ disturbed' \subseteq Procs
        /\ \A q \in Writing \ {p} : Target(q) = Target(p) => q \in disturbed' /\ p \in disturbed'
    BY <1>3, SMTT(20) DEF IInv, TypeOK, Meet, Rivals, Writing
  <2>4. Progress(p)'
    <3>1. Target(p)' = Target(p)
      BY <1>1 DEF Target, base_name
    <3> QED
      BY <2>1, <2>2, <3>1, SMTT(20) DEF Progress, Empty
  <2>5. RivalsDisturbed' /\ UndisturbedProgress' /\ OutputsBelongTogether'
    BY <1>1, <1>2, <2>1, <2>2, <2>3, <2>4, PairStep, Zenon
  <2>6. TypeOK'
    <3>1. \A q \in Writing' : dirs'[cmd'[q].dir] = "directory"
      BY <1>1, <1>3, <2>1, Zenon DEF IInv, TypeOK, Writing
    <3> QED
      BY <1>1, <1>2, <1>3, <2>1, <2>2, <2>3, <3>1, Zenon DEF IInv, TypeOK
  <2>7. ExitedIsIdle' /\ InputNamed' /\ DirectoryComing' /\ RefusalsJustified'
    BY <1>1, <1>2, <1>3, <2>1, CodesFrame, Zenon
  <2> QED
    BY <2>5, <2>6, <2>7 DEF IInv
<1>4. CASE /\ Exit(p, 1) /\ UNCHANGED <<files, disturbed>>
           /\ (dirs[cmd[p].dir] = "file" /\ faults' = faults) \/ Fault
  <2>1. /\ pc' \in [Procs -> Places] /\ pc'[p] = "idle"
        /\ exit' \in [Procs -> {0, 1, Missing}]
        /\ \A q \in Procs \ {p} : pc'[q] = pc[q] /\ exit'[q] = exit[q]
    BY <1>4 DEF IInv, TypeOK, Places, Exit
  <2>2. Writing' = Writing /\ RivalsDisturbed' /\ UndisturbedProgress' /\ OutputsBelongTogether'
    BY <1>1, <1>2, <1>4, <2>1, QuietFrame, SMTT(20) DEF Writing
  <2>3. faults' \in Nat /\ (faults' = 0 => faults = 0 /\ dirs[cmd[p].dir] = "file")
    BY <1>2, <1>4 DEF Fault
  <2>4. TypeOK'
    BY <1>1, <1>4, <2>1, <2>2, <2>3, Zenon DEF IInv, TypeOK
  <2>5. ExitedIsIdle' /\ InputNamed' /\ DirectoryComing' /\ RefusalsJustified'
    BY <1>1, <2>1, <2>3, CodesFrame, Zenon
  <2> QED
    BY <2>2, <2>4, <2>5 DEF IInv
<1> QED
  BY <1>3, <1>4, SMTT(20) DEF open_header

\* What Write leaves behind, whether or not the disk was full.
LEMMA WriteEffect ==
  ASSUME IInv, NEW p \in Writing, NEW e \in Extensions, Write(p, e)
  PROVE  /\ files' \in [Targets -> [Extensions -> Contents]]
         /\ \A x \in Extensions \ {e} : files'[Target(p)][x] = files[Target(p)][x]
         /\ \A t \in Targets \ {Target(p)} : files'[t] = files[t]
         /\ disturbed' \in {disturbed, disturbed \cup {p}}
         /\ faults' \in Nat /\ (faults' = 0 => faults = 0)
         /\ p \notin disturbed' /\ files[Target(p)][e] = Empty =>
              files'[Target(p)][e] = Whole(got[p])
<1>1. Target(p) \in Targets /\ got[p] \in Revisions /\ p \in Procs /\ faults \in Nat
  BY WriterTarget, SMTT(20) DEF IInv, TypeOK
<1>2. CASE /\ \E content \in Written(p, e) : files' = [files EXCEPT ![Target(p)][e] = content]
           /\ UNCHANGED <<disturbed, faults>>
  <2>1. PICK content \in Written(p, e) : files' = [files EXCEPT ![Target(p)][e] = content]
    BY <1>2, Zenon
  <2>2. /\ content \in {Whole(got[p]), [of |-> got[p], state |-> "mixed"]}
        /\ files[Target(p)][e] = Empty => content = Whole(got[p])
    BY <2>1 DEF Written, Whole
  <2>3. content \in Contents
    <3>1. /\ [of |-> got[p], state |-> "whole"] \in Contents
          /\ [of |-> got[p], state |-> "mixed"] \in Contents
      BY <1>1 DEF Contents
    <3> QED
      BY <2>2, <3>1, Zenon DEF Whole
  <2>4. /\ files' \in [Targets -> [Extensions -> Contents]]
        /\ files'[Target(p)][e] = content
        /\ \A x \in Extensions \ {e} : files'[Target(p)][x] = files[Target(p)][x]
        /\ \A t \in Targets \ {Target(p)} : files'[t] = files[t]
    BY <1>1, <2>1, <2>3, FileUpdate, Zenon DEF IInv
  <2> QED
    BY <1>1, <1>2, <2>2, <2>4, Zenon
<1>3. CASE Fault /\ Short(p, e) /\ disturbed' = disturbed \cup {p}
  <2>1. [of |-> got[p], state |-> "short"] \in Contents
    BY <1>1 DEF Contents
  <2>2. faults' \in Nat /\ faults' # 0
    BY <1>1, <1>3 DEF Fault
  <2> QED
    BY <1>1, <1>3, <2>1, <2>2, FileUpdate, Zenon DEF IInv, Short
<1> QED
  BY <1>2, <1>3 DEF Write

LEMMA WriteHeaderInv ==
  ASSUME IInv, NEW p \in Procs, write_header(p)
  PROVE  IInv'
<1>0. Write(p, "hpp") /\ Go(p, "open_source")
  BY DEF write_header
<1>1. pc[p] = "header" /\ UNCHANGED <<inputs, dirs, cmd, got, runs, edits, made>>
  BY DEF write_header, At, outside, bounds
<1>2. p \in Writing /\ Target(p) \in Targets /\ "hpp" \in Extensions
  BY <1>1, WriterTarget DEF IInv, Writing, Extensions
<1>3. /\ pc' \in [Procs -> Places] /\ pc'[p] = "open_source"
      /\ \A q \in Procs \ {p} : pc'[q] = pc[q]
      /\ exit' = exit /\ exit[p] = Missing /\ Writing' = Writing
  <2>1. exit[p] = Missing
    BY <1>1 DEF IInv, ExitedIsIdle
  <2> QED
    BY <1>0, <1>1, <2>1, SMTT(20) DEF IInv, TypeOK, Places, Go, Writing
<1>4. /\ files' \in [Targets -> [Extensions -> Contents]]
      /\ \A t \in Targets \ {Target(p)} : files'[t] = files[t]
      /\ disturbed' \in {disturbed, disturbed \cup {p}}
      /\ faults' \in Nat /\ (faults' = 0 => faults = 0)
      /\ p \notin disturbed' /\ files[Target(p)]["hpp"] = Empty =>
           files'[Target(p)]["hpp"] = Whole(got[p])
  BY <1>0, <1>2, WriteEffect, Zenon
<1>5. p \notin disturbed' => Progress(p)'
  <2>1. p \notin disturbed' => Progress(p)
    BY <1>2, <1>4, SMTT(20) DEF IInv, UndisturbedProgress
  <2>2. Target(p)' = Target(p)
    BY <1>1, SMTT(20) DEF Target, base_name
  <2> QED
    BY <1>1, <1>3, <1>4, <2>1, <2>2, SMTT(20) DEF Progress, Whole
<1>6. \A q \in Writing \ {p} : Target(q) = Target(p) => q \in disturbed /\ p \in disturbed
  BY <1>2 DEF IInv, RivalsDisturbed
<1>7. RivalsDisturbed' /\ UndisturbedProgress' /\ OutputsBelongTogether'
  BY <1>1, <1>2, <1>3, <1>4, <1>5, <1>6, PairStep, Zenon
<1>8. TypeOK'
  BY <1>1, <1>3, <1>4, Zenon DEF IInv, TypeOK
<1>9. ExitedIsIdle' /\ InputNamed' /\ DirectoryComing' /\ RefusalsJustified'
  BY <1>1, <1>3, <1>4, CodesFrame, Zenon
<1> QED
  BY <1>7, <1>8, <1>9 DEF IInv

LEMMA OpenSourceInv ==
  ASSUME IInv, NEW p \in Procs, open_source(p)
  PROVE  IInv'
<1>1. /\ pc[p] = "open_source"
      /\ UNCHANGED <<inputs, dirs, cmd, got, runs, edits, disturbed>>
  BY DEF open_source, At, outside, bounds
<1>2. p \in Writing /\ Target(p) \in Targets /\ faults \in Nat /\ exit[p] = Missing
  <2>1. p \in Writing /\ exit[p] = Missing
    BY <1>1 DEF IInv, ExitedIsIdle, Writing
  <2>2. faults \in Nat
    BY DEF IInv, TypeOK
  <2> QED
    BY <2>1, <2>2, WriterTarget DEF IInv
<1>3. \A q \in Writing \ {p} : Target(q) = Target(p) => q \in disturbed /\ p \in disturbed
  BY <1>2 DEF IInv, RivalsDisturbed
<1>4. CASE Truncate(p, "cpp") /\ Go(p, "source") /\ UNCHANGED <<made, faults>>
  <2>1. /\ pc' \in [Procs -> Places] /\ pc'[p] = "source"
        /\ \A q \in Procs \ {p} : pc'[q] = pc[q]
        /\ exit' = exit /\ Writing' = Writing
    BY <1>1, <1>4, SMTT(20) DEF IInv, TypeOK, Places, Go, Writing
  <2>2. /\ files' \in [Targets -> [Extensions -> Contents]]
        /\ files'[Target(p)]["cpp"] = Empty
        /\ files'[Target(p)]["hpp"] = files[Target(p)]["hpp"]
        /\ \A t \in Targets \ {Target(p)} : files'[t] = files[t]
    <3>1. Empty \in Contents /\ "cpp" \in Extensions /\ "hpp" \in Extensions \ {"cpp"}
      BY SMTT(20) DEF Contents, Extensions
    <3>2. files' = [files EXCEPT ![Target(p)]["cpp"] = Empty]
      BY <1>4 DEF Truncate
    <3>3. /\ files' \in [Targets -> [Extensions -> Contents]]
          /\ files'[Target(p)]["cpp"] = Empty
          /\ \A x \in Extensions \ {"cpp"} : files'[Target(p)][x] = files[Target(p)][x]
          /\ \A t \in Targets \ {Target(p)} : files'[t] = files[t]
      BY <1>2, <3>1, <3>2, FileUpdate, Zenon DEF IInv
    <3> QED
      BY <3>1, <3>3, Zenon
  <2>3. p \notin disturbed => Progress(p)'
    <3>1. p \notin disturbed => Progress(p)
      BY <1>2 DEF IInv, UndisturbedProgress
    <3>2. Target(p)' = Target(p)
      BY <1>1 DEF Target, base_name
    <3> QED
      BY <1>1, <2>1, <2>2, <3>1, <3>2, SMTT(20) DEF Progress, Whole, Empty
  <2>4. RivalsDisturbed' /\ UndisturbedProgress' /\ OutputsBelongTogether'
    BY <1>1, <1>2, <1>3, <1>4, <2>1, <2>2, <2>3, PairStep, Zenon
  <2>5. TypeOK'
    BY <1>1, <1>4, <2>1, <2>2, Zenon DEF IInv, TypeOK
  <2>6. ExitedIsIdle' /\ InputNamed' /\ DirectoryComing' /\ RefusalsJustified'
    BY <1>1, <1>2, <1>4, <2>1, CodesFrame, Zenon
  <2> QED
    BY <2>4, <2>5, <2>6 DEF IInv
<1>5. CASE Fault /\ Exit(p, 1) /\ Made(p, Missing) /\ UNCHANGED files
  <2>1. /\ pc' \in [Procs -> Places] /\ pc'[p] = "idle"
        /\ \A q \in Procs \ {p} : pc'[q] = pc[q] /\ exit'[q] = exit[q]
        /\ exit' \in [Procs -> {0, 1, Missing}] /\ Writing' = Writing \ {p}
    BY <1>1, <1>5, SMTT(20) DEF IInv, TypeOK, Places, Exit, Writing
  <2>2. /\ made' \in [Targets -> Revisions \cup {Missing}] /\ made'[Target(p)] = Missing
        /\ \A t \in Targets \ {Target(p)} : made'[t] = made[t]
    BY <1>2, <1>5, SMTT(20) DEF IInv, TypeOK, Made
  <2>3. faults' \in Nat /\ faults' # 0
    BY <1>2, <1>5 DEF Fault
  <2>4. RivalsDisturbed' /\ UndisturbedProgress' /\ OutputsBelongTogether'
    BY <1>1, <1>2, <1>3, <1>5, <2>1, <2>2, PairStep, Zenon
  <2>5. TypeOK'
    BY <1>1, <1>5, <2>1, <2>2, <2>3, Zenon DEF IInv, TypeOK
  <2>6. ExitedIsIdle' /\ InputNamed' /\ DirectoryComing' /\ RefusalsJustified'
    BY <1>1, <2>1, <2>3, CodesFrame, Zenon
  <2> QED
    BY <2>4, <2>5, <2>6 DEF IInv
<1> QED
  BY <1>4, <1>5 DEF open_source

LEMMA WriteSourceInv ==
  ASSUME IInv, NEW p \in Procs, write_source(p)
  PROVE  IInv'
<1>0. /\ Write(p, "cpp") /\ Exit(p, 0)
      /\ Made(p, IF p \in disturbed' THEN Missing ELSE got[p])
  BY DEF write_source
<1>1. pc[p] = "source" /\ UNCHANGED <<inputs, dirs, cmd, got, runs, edits>>
  BY DEF write_source, At, outside, bounds
<1>2. /\ p \in Writing /\ Target(p) \in Targets /\ got[p] \in Revisions
      /\ "cpp" \in Extensions /\ "hpp" \in Extensions \ {"cpp"}
  BY <1>1, WriterTarget DEF IInv, Writing, Extensions
<1>3. /\ pc' \in [Procs -> Places] /\ pc'[p] = "idle" /\ exit'[p] = 0
      /\ \A q \in Procs \ {p} : pc'[q] = pc[q] /\ exit'[q] = exit[q]
      /\ exit' \in [Procs -> {0, 1, Missing}] /\ Writing' = Writing \ {p}
  BY <1>0, <1>1, SMTT(20) DEF IInv, TypeOK, Places, Exit, Writing
<1>4. /\ files' \in [Targets -> [Extensions -> Contents]]
      /\ files'[Target(p)]["hpp"] = files[Target(p)]["hpp"]
      /\ \A t \in Targets \ {Target(p)} : files'[t] = files[t]
      /\ disturbed' \in {disturbed, disturbed \cup {p}}
      /\ faults' \in Nat /\ (faults' = 0 => faults = 0)
      /\ p \notin disturbed' /\ files[Target(p)]["cpp"] = Empty =>
           files'[Target(p)]["cpp"] = Whole(got[p])
  BY <1>0, <1>2, WriteEffect, Zenon
<1>5. /\ made' \in [Targets -> Revisions \cup {Missing}]
      /\ made'[Target(p)] = IF p \in disturbed' THEN Missing ELSE got[p]
      /\ \A t \in Targets \ {Target(p)} : made'[t] = made[t]
  BY <1>0, <1>2, SMTT(20) DEF IInv, TypeOK, Made
<1>6. p \notin disturbed' =>
        \A ext \in Extensions : files'[Target(p)][ext] = Whole(got[p])
  <2>1. p \notin disturbed' => Progress(p)
    BY <1>2, <1>4 DEF IInv, UndisturbedProgress
  <2>2. p \notin disturbed' =>
          /\ files[Target(p)]["hpp"] = Whole(got[p])
          /\ files[Target(p)]["cpp"] = Empty
    BY <1>1, <2>1, SMTT(20) DEF Progress
  <2> QED
    BY <1>4, <2>2, Zenon DEF Extensions
<1>7. \A q \in Writing \ {p} : Target(q) = Target(p) => q \in disturbed
  BY <1>2 DEF IInv, RivalsDisturbed
<1>8. RivalsDisturbed' /\ UndisturbedProgress' /\ OutputsBelongTogether'
  BY <1>1, <1>2, <1>3, <1>4, <1>5, <1>6, <1>7, PairStep, Zenon
<1>9. TypeOK'
  BY <1>1, <1>3, <1>4, <1>5, Zenon DEF IInv, TypeOK
<1>10. ExitedIsIdle' /\ InputNamed' /\ DirectoryComing' /\ RefusalsJustified'
  <2>1. exit'[p] # 1
    BY <1>3
  <2> QED
    BY <1>1, <1>3, <1>4, <2>1, CodesFrame, Zenon
<1> QED
  BY <1>8, <1>9, <1>10 DEF IInv

LEMMA KillInv ==
  ASSUME IInv, NEW p \in Procs, Kill(p)
  PROVE  IInv'
<1>0. Fault /\ pc' = [pc EXCEPT ![p] = "idle"]
  BY DEF Kill
<1>1. UNCHANGED <<inputs, dirs, cmd, got, exit, runs, edits, disturbed>>
  BY DEF Kill
<1>2. /\ pc' \in [Procs -> Places] /\ pc'[p] = "idle"
      /\ \A q \in Procs \ {p} : pc'[q] = pc[q]
      /\ Writing' = Writing \ {p}
  BY <1>0 DEF IInv, TypeOK, Places, Writing
<1>3. faults' \in Nat /\ faults' # 0
  BY <1>0 DEF IInv, TypeOK, Fault
<1>4. ExitedIsIdle' /\ InputNamed' /\ DirectoryComing' /\ RefusalsJustified'
  BY <1>1, <1>2, <1>3, CodesFrame
<1>5. CASE p \notin Writing
  <2>1. UNCHANGED <<files, made>>
    BY <1>5 DEF Kill, At, Writing
  <2>2. RivalsDisturbed' /\ UndisturbedProgress' /\ OutputsBelongTogether'
    BY <1>1, <1>2, <1>5, <2>1, QuietFrame
  <2>3. TypeOK'
    BY <1>1, <1>2, <1>3, <2>1, Zenon DEF IInv, TypeOK
  <2> QED
    BY <1>4, <2>2, <2>3 DEF IInv
<1>6. CASE p \in Writing
  <2>1. Target(p) \in Targets /\ got[p] \in Revisions
    BY <1>6, WriterTarget DEF IInv
  <2>2. /\ made' \in [Targets -> Revisions \cup {Missing}] /\ made'[Target(p)] = Missing
        /\ \A t \in Targets \ {Target(p)} : made'[t] = made[t]
    BY <1>6, <2>1, Zenon DEF IInv, TypeOK, Kill, Made
  <2>3. /\ files' \in [Targets -> [Extensions -> Contents]]
        /\ \A t \in Targets \ {Target(p)} : files'[t] = files[t]
    <3>1. [of |-> got[p], state |-> "short"] \in Contents
      BY <2>1 DEF Contents
    <3>2. "hpp" \in Extensions /\ "cpp" \in Extensions
      BY DEF Extensions
    <3>3. files' = files \/ Short(p, "hpp") \/ Short(p, "cpp")
      BY DEF Kill
    <3>4. CASE files' = files
      BY <3>4 DEF IInv, TypeOK
    <3>5. CASE Short(p, "hpp")
      BY <2>1, <3>1, <3>2, <3>5, FileUpdate, Zenon DEF IInv, Short
    <3>6. CASE Short(p, "cpp")
      BY <2>1, <3>1, <3>2, <3>6, FileUpdate, Zenon DEF IInv, Short
    <3> QED
      BY <3>3, <3>4, <3>5, <3>6
  <2>4. \A q \in Writing \ {p} : Target(q) = Target(p) => q \in disturbed
    BY <1>6 DEF IInv, RivalsDisturbed
  <2>5. RivalsDisturbed' /\ UndisturbedProgress' /\ OutputsBelongTogether'
    BY <1>1, <1>2, <2>1, <2>2, <2>3, <2>4, PairStep, Zenon
  <2>6. TypeOK'
    BY <1>1, <1>2, <1>3, <2>2, <2>3, Zenon DEF IInv, TypeOK
  <2> QED
    BY <1>4, <2>5, <2>6 DEF IInv
<1> QED
  BY <1>5, <1>6

LEMMA StutterInv == IInv /\ UNCHANGED vars => IInv'
<1> SUFFICES ASSUME IInv, UNCHANGED vars PROVE IInv'
  OBVIOUS
<1>1. Writing' = Writing
  BY DEF vars, Writing
<1>2. RivalsDisturbed' /\ UndisturbedProgress' /\ OutputsBelongTogether'
  BY <1>1, WritersFrame DEF vars
<1>3. TypeOK'
  BY <1>1, Zenon DEF IInv, TypeOK, vars
<1>4. ExitedIsIdle' /\ InputNamed' /\ DirectoryComing' /\ RefusalsJustified'
  BY SMTT(20) DEF IInv, ExitedIsIdle, InputNamed, DirectoryComing, RefusalsJustified, vars
<1> QED
  BY <1>2, <1>3, <1>4 DEF IInv

-----------------------------------------------------------------------------
\* IInv holds in every reachable state, however many processes run and whatever
\* fails, is killed or is edited.
THEOREM Invariance == Spec => []IInv
<1>1. IInv /\ [Next]_vars => IInv'
  <2> SUFFICES ASSUME IInv, [Next]_vars PROVE IInv'
    OBVIOUS
  <2>1. ASSUME NEW p \in Procs, Step(p) PROVE IInv'
    BY <2>1, MainInv, ReadFileInv, CompileInv, ExistsInv, CreateDirectoriesInv, OpenHeaderInv,
       WriteHeaderInv, OpenSourceInv, WriteSourceInv DEF Step
  <2> QED
    BY <2>1, StartInv, KillInv, EditInv, StutterInv DEF Next
<1> QED
  BY InitInv, <1>1, PTL DEF Spec

\* Every variable keeps its type, a process past read_file holds a revision, and a
\* process that writes has its directory.
THEOREM TypeCorrect == Spec => []TypeOK
<1>1. IInv => TypeOK
  BY DEF IInv
<1> QED
  BY Invariance, <1>1, PTL

\* The pair of files that compile_schema() leaves is whole and of one revision,
\* unless its last writer was cut short, killed or met another.
THEOREM PairsBelongTogether == Spec => []OutputsBelongTogether
<1>1. IInv => OutputsBelongTogether
  BY DEF IInv
<1> QED
  BY Invariance, <1>1, PTL

\* Without a fault main() returns 1 only for a reason that lies in the command
\* line, the input or a file in the place of the directory.
THEOREM RefusalsAreJustified == Spec => []RefusalsJustified
<1>1. IInv => RefusalsJustified
  BY DEF IInv
<1> QED
  BY Invariance, <1>1, PTL
=============================================================================
