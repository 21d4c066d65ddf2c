-------------------------------- MODULE Driver --------------------------------
(***************************************************************************)
(* The process: main() of src/exo/exo.cpp with Target, Tree, Codegen and   *)
(* JIT in the order it uses them, what becomes of an exception, and the    *)
(* signals that may arrive meanwhile.                                      *)
(***************************************************************************)
EXTENDS Loader

CONSTANTS
  Emissions,  \* bound: the sets of emit options that are given together
  Results     \* bound: what programs return

ASSUME DriverAssumption ==
  /\ Emissions \subseteq SUBSET {"llvm", "assembly", "object", "bitcode"}
  /\ Results \subseteq Nat

VARIABLES
  pc,        \* where main() is
  command,   \* the command line
  handlers,  \* are the signal handlers registered?
  blocked,   \* is SIGSEGV blocked?
  retval,    \* main()'s variable, 0 for what it is before it is set
  outputs,   \* what was emitted, and where
  loaded,    \* the libraries loaded into the process
  results,   \* what the program returned, once it has run to its end
  outcome    \* how the process ended

vars == <<cwd, disk, loading, imports, used, pc, command, handlers, blocked, retval,
          outputs, loaded, results, outcome>>

\* The command line asks for something else, is malformed, or names an input file.
Commands ==
  [ask : {"help", "version", "nothing", "mistake"}, bare : {FALSE}, emits : {{}}, named : {"nothing"}]
  \cup [ask : {"file"}, bare : BOOLEAN, emits : Emissions,
        named : {"nothing", "relative", "absolute"}]

Running        == [by |-> "nothing", status |-> 0]
Exited(status) == [by |-> "exit", status |-> status]
Killed(signal) == [by |-> signal, status |-> 0]

InTry == pc \in {"target", "parse", "generate", "visit", "verify", "output", "import", "running"}

\* The rest of the process, and of the files, is as before.
Moves(from, to) == pc = from /\ pc' = to

Ends(how) == /\ pc' = "ended" /\ outcome' = how
             /\ UNCHANGED <<command, handlers, blocked, retval, outputs, loaded, results>>

\* A catch clause that reported nothing to the caller.
CatchQuietly == retval' = 0 /\ pc' = "shutdown"

\* Every catch clause
Catch == retval' = 1 /\ pc' = "shutdown"

Throw == /\ InTry
         /\ Catch
         /\ UNCHANGED <<command, handlers, outputs, loaded, results, outcome>>

-----------------------------------------------------------------------------
(* Before the try block.                                                   *)

\* store() throws where nothing catches.
Mistake == /\ pc = "options" /\ command.ask = "mistake"
           /\ Ends(Killed("ABRT")) /\ UNCHANGED loaderVars

Help == /\ pc = "options" /\ command.ask = "help"
        /\ Ends(Exited(0)) /\ UNCHANGED loaderVars

Startup ==
  /\ command.ask \notin {"mistake", "help"}
  /\ Moves("options", "started")
  /\ handlers' = TRUE
  /\ UNCHANGED <<loaderVars, command, blocked, retval, outputs, loaded, results, outcome>>

\* No input is found missing in the try block, but exit() is no exception.
Version == /\ pc = "started" /\ command.ask = "version"
           /\ Ends(Exited(0)) /\ UNCHANGED loaderVars
NoInput == /\ pc = "started" /\ command.ask = "nothing"
           /\ Ends(Exited(1)) /\ UNCHANGED loaderVars

-----------------------------------------------------------------------------
(* The try block.                                                          *)

Stays == UNCHANGED <<command, handlers, blocked, retval, outputs, loaded, results, outcome>>

TryBlock == /\ command.ask = "file" /\ Moves("started", "target")
            /\ Stays /\ UNCHANGED loaderVars

MakeTarget == Moves("target", "parse") /\ Stays /\ UNCHANGED loaderVars

Parse(text) == Moves("parse", "generate") /\ ParseMain(text) /\ Stays

\* parent_path() of a bare file name is empty, and no directory to change to.
Generate == /\ ~command.bare
            /\ Moves("generate", "visit") /\ OpenTree /\ Stays

BareName == /\ pc = "generate" /\ command.bare
            /\ Throw /\ UNCHANGED <<loaderVars, blocked>>

Load == pc = "visit" /\ pc' = pc /\ Loads /\ Stays

LoadFails == pc = "visit" /\ LoadThrows /\ Throw /\ UNCHANGED blocked

\* The handler of SIGSEGV has no room on the stack that has overflowed.
Overflow == /\ pc = "visit"
            /\ \E name \in Modules : NoRoom(name)
            /\ Ends(Killed("SEGV")) /\ UNCHANGED loaderVars

Generated == Moves("visit", "verify") /\ CloseTree /\ Stays

Verify == Moves("verify", "output") /\ Stays /\ UNCHANGED loaderVars

\* The first of the options, in the order main() asks for them.
Emission ==
  LET order == <<"llvm", "assembly", "object", "bitcode">>
      first == CHOOSE i \in DOMAIN order :
                 /\ order[i] \in command.emits
                 /\ \A j \in 1 .. i - 1 : order[j] \notin command.emits
  IN  order[first]

Stdout  == <<"standard output">>
AsGiven == <<"where its name says">>

\* Only LLVM IR goes to the standard output.  All else has a name, which starts from the
\* directory that is the current one now unless it is absolute.
Place ==
  IF Emission = "llvm" /\ command.named = "nothing" THEN Stdout
  ELSE IF command.named = "absolute" THEN AsGiven ELSE cwd

\* Whether the file could be written is not asked.
Emit(written) ==
  /\ command.emits # {}
  /\ Moves("output", "shutdown")
  /\ outputs' = IF written \/ Place = Stdout THEN {[kind |-> Emission, dir |-> Place]} ELSE {}
  /\ retval' = 1
  /\ UNCHANGED <<loaderVars, command, handlers, blocked, loaded, results, outcome>>

Execute == /\ command.emits = {}
           /\ Moves("output", "import") /\ Stays /\ UNCHANGED loaderVars

LoadLibrary(library) ==
  /\ pc = "import" /\ pc' = pc
  /\ library \in imports \ loaded
  /\ loaded' = loaded \cup {library}
  /\ UNCHANGED <<loaderVars, command, handlers, blocked, retval, outputs, results, outcome>>

Run == /\ imports = loaded
       /\ Moves("import", "running") /\ Stays /\ UNCHANGED loaderVars

\* The program is done.  How long it runs is its own affair.
Return(r) ==
  /\ Moves("running", "shutdown")
  /\ results' = {r}
  /\ retval' = r
  /\ UNCHANGED <<loaderVars, command, handlers, blocked, outputs, loaded, outcome>>

\* An unknown target, a missing or malformed input file, an error in the program, a
\* module that LLVM refuses, an engine that cannot be created, a library that cannot
\* be loaded.
Fails == /\ InTry /\ pc # "running"
         /\ Throw
         /\ Unwind /\ UNCHANGED <<disk, blocked>>

\* A status that was passed on whole.
StatusWide(r) == r

\* What the parent sees of exit( r ): eight bits.
Status(r) == r % 256

Exit == /\ pc = "shutdown"
        /\ Ends(Exited(Status(retval))) /\ UNCHANGED loaderVars

-----------------------------------------------------------------------------
(* Signals.                                                                *)

\* The handler throws.  Whether the frames in between can be unwound from where the
\* fault was depends on the code that failed; if not, std::terminate() aborts.  SIGSEGV
\* stays blocked, since the handler has not returned.
SegfaultThrows ==
  \/ Throw /\ blocked' = TRUE /\ Unwind /\ UNCHANGED disk
  \/ Ends(Killed("ABRT")) /\ UNCHANGED loaderVars

\* Where a fault is fatal: before there is a handler, and the second time.
Segfault ==
  /\ pc # "ended"
  /\ IF ~handlers \/ blocked THEN Ends(Killed("SEGV")) /\ UNCHANGED loaderVars
     ELSE SegfaultThrows

\* SIGTERM and SIGINT: the handler collects garbage and returns.
Asked == /\ pc # "ended"
         /\ IF handlers THEN UNCHANGED vars
            ELSE Ends(Killed("TERM")) /\ UNCHANGED loaderVars

-----------------------------------------------------------------------------

Init ==
  /\ LoaderInit
  /\ pc = "options"
  /\ command \in Commands
  /\ handlers = FALSE /\ blocked = FALSE
  /\ retval = 0
  /\ outputs = {} /\ loaded = {}
  /\ results = {} /\ outcome = Running

\* What the process does on its own.
Main ==
  \/ Mistake \/ Help \/ Startup \/ Version \/ NoInput
  \/ TryBlock \/ MakeTarget
  \/ \E text \in Sources : Parse(text)
  \/ Generate \/ BareName \/ Load \/ LoadFails \/ Overflow \/ Generated
  \/ Verify
  \/ \E written \in BOOLEAN : Emit(written)
  \/ Execute
  \/ \E library \in imports : LoadLibrary(library)
  \/ Run
  \/ Fails
  \/ Exit

Environment ==
  \/ \E r \in Results : Return(r)
  \/ Segfault
  \/ Asked

Ended == pc = "ended" /\ UNCHANGED vars

Next == Main \/ Environment \/ Ended

\* The operating system goes on running the process; nothing makes a program return.
Spec == Init /\ [][Next]_vars /\ WF_vars(Main)
=============================================================================
