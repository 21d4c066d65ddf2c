------------------------------ MODULE DriverProps ------------------------------
(***************************************************************************)
(* What must be true of the process and of the files it visits.            *)
(***************************************************************************)
EXTENDS Driver, Functions

Places == {File(dir, name) : dir \in {<<Start>>, <<Home>>}
                               \cup {<<path>> : path \in Range(IncludePaths) \cup Range(LibraryPaths)}
                               \cup {<<Home, path>> : path \in Relative},
                             name \in Modules \cup Libraries}

\* Types of the process's state; the current directory is where it started or the
\* input file's.
TypeOK ==
  /\ cwd \in {<<Start>>, <<Home>>}
  /\ DOMAIN disk \subseteq Places
  /\ \A f \in DOMAIN disk : disk[f] \in Sources \cup {Absent, Broken}
  /\ loading \in Seq([file : Places, done : 0 .. MaxStatements]) /\ Len(loading) <= MaxDepth
  /\ imports \cup loaded \subseteq Places
  /\ used \subseteq Modules \X Places
  /\ pc \in {"options", "started", "target", "parse", "generate", "visit", "verify",
             "output", "import", "running", "shutdown", "ended"}
  /\ command \in Commands
  /\ {handlers, blocked} \subseteq BOOLEAN
  /\ retval \in {0, 1} \cup Results
  /\ results \subseteq Results
  /\ outcome \in [by : {"nothing", "exit", "ABRT", "SEGV", "TERM"}, status : 0 .. 255]

\* A parent that looks at the exit status is told 0 if, and only if, help or the version
\* was asked for or the program ran to its end and returned a multiple of 256: no error
\* in any phase, and no emission, ends with 0.
ExitStatus ==
  outcome.by = "exit" =>
    (outcome.status = 0 <=>
       \/ command.ask \in {"help", "version"}
       \/ \E r \in results : r % 256 = 0)

\* What is emitted goes to the directory that exo was started in, although the input
\* file's was the current one while it was compiled, unless it has an absolute name or is
\* LLVM IR without one; and nothing is emitted of a program that is run, or of one that
\* was not all visited.
OutputInStartDirectory ==
  \A o \in outputs :
    /\ \/ o.dir = <<Start>>
       \/ o.dir = AsGiven /\ command.named = "absolute"
       \/ o.dir = Stdout /\ command.named = "nothing" /\ o.kind = "llvm"
    /\ command.emits # {} /\ loading = <<>> /\ results = {}

\* A module is the same file wherever in the program it is used, in the input file or
\* in a module found in some other directory.
UsesResolveAlike == \A u, v \in used : u[1] = v[1] => u[2] = v[2]

\* No program is so deeply nested that its visit exhausts the stack, except one that
\* uses, directly or not, a module that is being visited (codegen.cpp:1237: "doesnt
\* handle recursiveness").
OnlyRecursionExhausts ==
  Len(loading) = MaxDepth =>
    \E i, j \in DOMAIN loading : i < j /\ loading[i].file = loading[j].file

\* What the file says that a use was resolved to.
Says(file) == Range(disk[file].stmts)

\* A program runs with all that is written in it: the input file and each module that
\* it uses, directly or through other modules, had every one of its uses resolved, and
\* every library that any of them imports is loaded before the first instruction, and no
\* library that none of them imports.
RunsWithImports ==
  pc = "running" \/ results # {} =>
    /\ <<MainModule, MainFile>> \in used
    /\ \A u \in used : \A s \in Says(u[2]) :
         \/ s.op = "use" /\ \E v \in used : v[1] = s.name
         \/ s.op = "import" /\ \E l \in loaded : l.name = s.name
    /\ \A l \in loaded : \E u \in used : [op |-> "import", name |-> l.name] \in Says(u[2])

\* Whatever the input, exo hands over to the program or ends, and ends once the program
\* has returned: no cycle of uses, no exception, no signal keeps it going.
Terminates == []<>(pc \in {"running", "ended"})
=============================================================================
