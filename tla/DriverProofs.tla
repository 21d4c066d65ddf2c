----------------------------- MODULE DriverProofs -----------------------------
(***************************************************************************)
(* Theorems about the process, for every command line, file system, number *)
(* of modules and search path.                                             *)
(***************************************************************************)
EXTENDS DriverProps, FiniteSetTheorems, SequenceTheorems, TLAPS

-----------------------------------------------------------------------------
(* The invariant.                                                          *)

\* Where a module is searched for while the tree is visited.
HomeDirectory(path) == IF path \in Relative THEN Append(<<Home>>, path) ELSE <<path>>
HomePlaces(name) ==
  <<File(<<Home>>, name)>> \o [i \in DOMAIN IncludePaths |-> File(HomeDirectory(IncludePaths[i]), name)]

\* A use is of the first of the places that is on the disk.
Resolved(name, file, d) ==
  \E i \in DOMAIN HomePlaces(name) :
    /\ file = HomePlaces(name)[i]
    /\ file \in DOMAIN d /\ d[file].there
    /\ \A j \in 1 .. i - 1 :
         HomePlaces(name)[j] = file \/ (HomePlaces(name)[j] \in DOMAIN d /\ d[HomePlaces(name)[j]] = Absent)

UsesResolved == \A u \in used : \E name \in Modules : u = <<name, u[2]>> /\ Resolved(name, u[2], disk)

\* The current directory is the input file's while the tree is visited only, and before
\* there is an exception it is the first one else.
Directories ==
  /\ pc = "visit" => cwd = <<Home>>
  /\ pc \notin {"visit", "shutdown", "ended"} => cwd = <<Start>>
  /\ pc \notin {"visit", "ended"} => loading = <<>>

\* What was emitted is where exo was started, or where it was told to go.
Placed(o) ==
  \/ o.dir = <<Start>>
  \/ o.dir = AsGiven /\ command.named = "absolute"
  \/ o.dir = Stdout /\ command.named = "nothing" /\ o.kind = "llvm"

\* Nothing is run of which something was emitted.
Emitted ==
  outputs # {} =>
    /\ \A o \in outputs : Placed(o)
    /\ command.emits # {} /\ results = {} /\ loading = <<>>
    /\ pc \in {"shutdown", "ended"}

\* What is known of the program in each phase.
Phases ==
  /\ pc \in {"import", "running"} => command.emits = {}
  /\ pc = "running" => loaded = imports
  /\ results # {} => /\ pc \in {"shutdown", "ended"}
                     /\ command.emits = {} /\ loaded = imports

\* main()'s variable is what the program returned, or 1, when the process ends.
Retval ==
  /\ pc = "shutdown" => \/ results = {} /\ retval = 1
                        \/ retval \in Nat /\ results = {retval}
  /\ pc \in {"started", "options"} => results = {}
  /\ pc \notin {"options", "started", "ended"} => command.ask = "file"
  /\ pc # "ended" => outcome = Running

Control == Directories /\ Emitted /\ Phases /\ Retval /\ ExitStatus
IInv    == Control /\ UsesResolved

-----------------------------------------------------------------------------
(* The control flow of main().                                             *)

LEMMA InitControl == Init => Control
  BY DriverAssumption
  DEF Init, LoaderInit, Control, Directories, Emitted, Placed, Phases, Retval, ExitStatus, Running

\* A phase of main() that only goes on to the next.
LEMMA Before ==
  ASSUME Control, Mistake \/ Help \/ Startup \/ Version \/ NoInput
  PROVE  Control'
  BY DEF Control, Directories, Emitted, Placed, Phases, Retval, ExitStatus, Mistake, Help, Startup,
         Version, NoInput, Ends, Exited, Killed, Running, Moves, loaderVars

LEMMA Proceeds ==
  ASSUME Control,
         \/ TryBlock \/ MakeTarget \/ Generate \/ Generated \/ Verify \/ Execute \/ Run
         \/ \E text \in Sources : Parse(text)
  PROVE  Control'
  BY DEF Control, Directories, Emitted, Placed, Phases, Retval, ExitStatus, TryBlock, MakeTarget,
         Generate, Generated, Verify, Execute, Run, Parse, ParseMain, OpenTree, CloseTree,
         Moves, Stays, Running, loaderVars

\* An exception leaves the try block with 1, whatever was going on.
LEMMA Thrown ==
  ASSUME Control, Throw, loading' = <<>>
  PROVE  Control'
  BY DEF Control, Directories, Emitted, Placed, Phases, Retval, ExitStatus, Throw, Catch, InTry, Running

LEMMA Throws ==
  ASSUME Control, BareName \/ LoadFails \/ Fails
  PROVE  Control'
<1>1. CASE BareName
  <2>1. Throw /\ loading' = <<>>
    BY <1>1 DEF BareName, Control, Directories, loaderVars
  <2> QED BY <2>1, Thrown
<1>2. CASE LoadFails
  BY <1>2, Thrown DEF LoadFails, LoadThrows, UseThrows, ImportThrows, Unwind
<1>3. CASE Fails
  BY <1>3, Thrown DEF Fails, Unwind
<1> QED BY <1>1, <1>2, <1>3

LEMMA Visits ==
  ASSUME Control, Load
  PROVE  Control'
<1>1. pc = "visit" /\ pc' = pc /\ Stays
  BY DEF Load
<1>2. cwd' = cwd
  BY DEF Load, Loads, OpenUse, CloseUse, Import, Enter
<1> QED BY <1>1, <1>2
        DEF Control, Directories, Emitted, Placed, Phases, Retval, ExitStatus, Stays, Running

\* The output, the libraries, the program and its result.
LEMMA Outputs ==
  ASSUME Control,
         \/ \E written \in BOOLEAN : Emit(written)
         \/ \E library \in imports : LoadLibrary(library)
         \/ \E r \in Results : Return(r)
  PROVE  Control'
<1>1. CASE \E written \in BOOLEAN : Emit(written)
  <2>1. PICK written \in BOOLEAN : Emit(written)
    BY <1>1
  <2>2. cwd = <<Start>> /\ results = {} /\ loading = <<>>
    BY <2>1 DEF Control, Directories, Phases, Emit, Moves
  <2>3. outputs' \subseteq {[kind |-> Emission, dir |-> Place]} /\ command' = command
    BY <2>1 DEF Emit
  <2>4. \A o \in outputs' : Placed(o)'
    BY <2>2, <2>3 DEF Placed, Place
  <2> QED BY <2>1, <2>2, <2>4
          DEF Control, Directories, Emitted, Placed, Phases, Retval, ExitStatus, Emit, Moves,
              Running, loaderVars
<1>2. CASE \E library \in imports : LoadLibrary(library)
  BY <1>2 DEF Control, Directories, Emitted, Placed, Phases, Retval, ExitStatus, LoadLibrary,
              Running, loaderVars
<1>3. CASE \E r \in Results : Return(r)
  BY <1>3, DriverAssumption
  DEF Control, Directories, Emitted, Placed, Phases, Retval, ExitStatus, Return, Moves,
      Running, loaderVars
<1> QED BY <1>1, <1>2, <1>3

\* The status is 0 only of a program that returned a multiple of 256.
LEMMA Exits ==
  ASSUME Control, Exit
  PROVE  Control'
<1>1. /\ pc' = "ended" /\ outcome' = Exited(retval % 256)
      /\ UNCHANGED <<command, outputs, loaded, results, loaderVars>>
  BY DEF Exit, Ends, Status
<1>2. command.ask = "file" /\ ((results = {} /\ retval = 1) \/ results = {retval})
  BY DEF Control, Retval, Exit
<1>3. ExitStatus'
  BY <1>1, <1>2 DEF ExitStatus, Exited
<1> QED BY <1>1, <1>3 DEF Control, Directories, Emitted, Placed, Phases, Retval, loaderVars

\* A signal kills, or is an exception, or nothing.
LEMMA Kills ==
  ASSUME Control, UNCHANGED loaderVars, pc # "ended",
         NEW signal \in {"ABRT", "SEGV", "TERM"}, Ends(Killed(signal))
  PROVE  Control'
  BY DEF Control, Directories, Emitted, Placed, Phases, Retval, ExitStatus, Ends, Killed, loaderVars

LEMMA Signals ==
  ASSUME Control, Overflow \/ Segfault \/ Asked
  PROVE  Control'
<1>1. CASE Overflow
  BY <1>1, Kills DEF Overflow
<1>2. CASE Segfault
  <2>1. CASE Throw /\ loading' = <<>>
    BY <2>1, Thrown
  <2>2. CASE UNCHANGED loaderVars /\ \E signal \in {"ABRT", "SEGV"} : Ends(Killed(signal))
    BY <1>2, <2>2, Kills DEF Segfault
  <2> QED BY <1>2, <2>1, <2>2 DEF Segfault, SegfaultThrows, Unwind
<1>3. CASE Asked
  <2>1. CASE UNCHANGED vars
    BY <2>1 DEF vars, Control, Directories, Emitted, Placed, Phases, Retval, ExitStatus
  <2>2. CASE Ends(Killed("TERM")) /\ UNCHANGED loaderVars
    BY <1>3, <2>2, Kills DEF Asked
  <2> QED BY <1>3, <2>1, <2>2 DEF Asked
<1> QED BY <1>1, <1>2, <1>3

LEMMA StepControl ==
  ASSUME Control, [Next]_vars
  PROVE  Control'
<1>1. CASE Main
  BY <1>1, Before, Proceeds, Throws, Visits, Outputs, Exits, Signals DEF Main
<1>2. CASE Environment
  BY <1>2, Outputs, Signals DEF Environment
<1>3. CASE UNCHANGED vars
  BY <1>3 DEF vars, Control, Directories, Emitted, Placed, Phases, Retval, ExitStatus
<1> QED BY <1>1, <1>2, <1>3 DEF Next, Ended

-----------------------------------------------------------------------------
(* The resolution of uses.                                                 *)

\* Nothing that is known of the disk changes.
Grows == \A f \in DOMAIN disk : f \in DOMAIN disk' /\ disk'[f] = disk[f]

LEMMA LearnGrows ==
  ASSUME NEW files, NEW text, Learn(files, text)
  PROVE  Grows
  BY DEF Learn, Grows

LEMMA ResolvedStays ==
  ASSUME Grows, NEW name, NEW file, Resolved(name, file, disk)
  PROVE  Resolved(name, file, disk')
  BY DEF Grows, Resolved

LEMMA UsesStay ==
  ASSUME UsesResolved, Grows, UNCHANGED used
  PROVE  UsesResolved'
<1> SUFFICES ASSUME NEW u \in used
             PROVE  \E name \in Modules : u = <<name, u[2]>> /\ Resolved(name, u[2], disk')
  BY DEF UsesResolved
<1>1. PICK name \in Modules : u = <<name, u[2]>> /\ Resolved(name, u[2], disk)
  BY DEF UsesResolved
<1> QED BY <1>1, ResolvedStays

\* Seen from the input file's directory, the places are always the same.
LEMMA PlacesFromHome ==
  ASSUME cwd = <<Home>>, NEW name
  PROVE  ModulePlaces(name) = HomePlaces(name)
  BY DEF ModulePlaces, HomePlaces, InPaths, Directory, HomeDirectory

LEMMA PlacesIndexed ==
  ASSUME NEW name
  PROVE  /\ DOMAIN HomePlaces(name) \subseteq Nat \ {0}
         /\ 1 \in DOMAIN HomePlaces(name)
         /\ HomePlaces(name)[1] = File(<<Home>>, name)
<1>1. DOMAIN IncludePaths = 1 .. Len(IncludePaths) /\ Len(IncludePaths) \in Nat
  BY LoaderAssumption
<1> DEFINE rest == [i \in DOMAIN IncludePaths |-> File(HomeDirectory(IncludePaths[i]), name)]
           S    == {rest[i] : i \in DOMAIN IncludePaths}
<1>2. rest \in Seq(S)
  BY <1>1
<1>3. <<File(<<Home>>, name)>> \o rest \in Seq(S \cup {File(<<Home>>, name)})
  BY <1>2
<1>4. HomePlaces(name) = <<File(<<Home>>, name)>> \o rest
  BY DEF HomePlaces
<1> HIDE DEF rest, S
<1> QED BY <1>2, <1>3, <1>4

LEMMA FoundResolved ==
  ASSUME NEW name, NEW i \in DOMAIN HomePlaces(name), NEW text \in Sources, text.parses,
         FoundAt(HomePlaces(name), i, text)
  PROVE  Resolved(name, HomePlaces(name)[i], disk') /\ Grows
<1> DEFINE file == HomePlaces(name)[i]
<1>1. text.there
  BY DEF Sources, Source
<1>2. i \in 1 .. i
  BY PlacesIndexed
<1>3. file \in DOMAIN disk' /\ disk'[file] = text
  BY <1>2 DEF FoundAt, Learn, MayBe
<1>4. ASSUME NEW j \in 1 .. i - 1
      PROVE  HomePlaces(name)[j] = file
             \/ (HomePlaces(name)[j] \in DOMAIN disk' /\ disk'[HomePlaces(name)[j]] = Absent)
  <2>1. j \in 1 .. i
    BY PlacesIndexed
  <2> QED BY <2>1 DEF FoundAt, Learn, MayBe
<1>5. Grows
  BY LearnGrows DEF FoundAt
<1> QED BY <1>1, <1>3, <1>4, <1>5 DEF Resolved

LEMMA UseResolves ==
  ASSUME IInv, pc = "visit", NEW name \in Modules, NEW i \in DOMAIN ModulePlaces(name),
         NEW text \in Sources, OpenUse(name, i, text)
  PROVE  UsesResolved'
<1>1. ModulePlaces(name) = HomePlaces(name)
  BY PlacesFromHome DEF IInv, Control, Directories
<1> DEFINE file == HomePlaces(name)[i]
<1>2. /\ FoundAt(HomePlaces(name), i, text) /\ text.parses
      /\ used' = used \cup {<<name, file>>}
  BY <1>1 DEF OpenUse
<1>3. Resolved(name, file, disk') /\ Grows
  BY <1>1, <1>2, FoundResolved
<1> SUFFICES ASSUME NEW u \in used'
             PROVE  \E n \in Modules : u = <<n, u[2]>> /\ Resolved(n, u[2], disk')
  BY DEF UsesResolved
<1>4. CASE u \in used
  <2>1. PICK n \in Modules : u = <<n, u[2]>> /\ Resolved(n, u[2], disk)
    BY <1>4 DEF IInv, UsesResolved
  <2> QED BY <2>1, <1>3, ResolvedStays
<1>5. CASE u = <<name, file>>
  BY <1>3, <1>5
<1> QED BY <1>2, <1>4, <1>5

\* The input file is where a use of its name would look first.
LEMMA MainResolves ==
  ASSUME NEW text \in Sources, ParseMain(text)
  PROVE  UsesResolved'
<1>1. text.there /\ MainFile \in DOMAIN disk' /\ disk'[MainFile] = text
  BY DEF ParseMain, Learn, MayBe, Sources, Source
<1>2. /\ 1 \in DOMAIN HomePlaces(MainModule) /\ HomePlaces(MainModule)[1] = MainFile
      /\ 1 .. 1 - 1 = {}
  BY PlacesIndexed DEF MainFile
<1>3. Resolved(MainModule, MainFile, disk')
  BY <1>1, <1>2 DEF Resolved
<1> QED BY <1>3, LoaderAssumption DEF ParseMain, UsesResolved

\* Nothing else resolves a use.
LEMMA OthersStay ==
  ASSUME Next, UsesResolved, ~Load, \A text \in Sources : ~Parse(text)
  PROVE  UsesResolved'
<1>1. UNCHANGED used /\ Grows
  <2>1. CASE UNCHANGED <<disk, used>>
    BY <2>1 DEF Grows
  <2>2. CASE LoadFails
    BY <2>2, LearnGrows DEF LoadFails, LoadThrows, UseThrows, ImportThrows, FoundNowhere,
                            FoundAt, Unwind
  <2>3. \/ UNCHANGED <<disk, used>>
        \/ LoadFails
    BY DEF Next, Main, Environment, Ended, vars, loaderVars, Mistake, Help, Startup, Version,
           NoInput, TryBlock, MakeTarget, Generate, OpenTree, BareName, Overflow, Generated,
           CloseTree, Verify, Emit, Execute, LoadLibrary, Run, Fails, Unwind, Exit, Return,
           Segfault, SegfaultThrows, Asked
  <2> QED BY <2>1, <2>2, <2>3
<1> QED BY <1>1, UsesStay

LEMMA StepUses ==
  ASSUME IInv, [Next]_vars
  PROVE  UsesResolved'
<1>1. CASE Load
  <2>1. CASE \E name \in Modules :
               \E i \in DOMAIN ModulePlaces(name), text \in Sources : OpenUse(name, i, text)
    BY <1>1, <2>1, UseResolves DEF Load
  <2>2. CASE CloseUse
    BY <2>2, UsesStay DEF CloseUse, Grows, IInv
  <2>3. CASE \E name \in Libraries : \E i \in DOMAIN LibraryPlaces(name) : Import(name, i)
    BY <2>3, UsesStay, LearnGrows DEF Import, FoundAt, IInv
  <2> QED BY <1>1, <2>1, <2>2, <2>3 DEF Load, Loads
<1>2. CASE \E text \in Sources : Parse(text)
  BY <1>2, MainResolves DEF Parse
<1>3. CASE UNCHANGED vars
  BY <1>3, UsesStay DEF vars, Grows, IInv
<1> QED BY <1>1, <1>2, <1>3, OthersStay DEF IInv

-----------------------------------------------------------------------------
(* The types, and what is known of the files being visited.                *)

Texts == Sources \cup {Absent, Broken}

DiskType ==
  /\ DOMAIN disk \subseteq Places
  /\ \A f \in DOMAIN disk : disk[f] \in Texts

\* A file being visited was found by its own name, parses, and no more of its
\* statements were visited than it has.
Visited(visit, d, u) ==
  /\ visit.file \in DOMAIN d /\ d[visit.file] \in Sources
  /\ visit.done <= Len(d[visit.file].stmts)
  /\ <<visit.file.name, visit.file>> \in u

\* The input file was parsed before its tree is visited.
MainParsed ==
  pc = "generate" =>
    /\ MainFile \in DOMAIN disk /\ disk[MainFile] \in Sources
    /\ <<MainModule, MainFile>> \in used

Files == DiskType /\ MainParsed /\ \A i \in DOMAIN loading : Visited(loading[i], disk, used)

FInv == IInv /\ TypeOK /\ Files

Waiting == Seq([file : Places, done : 0 .. MaxStatements])

LEMMA TextLength ==
  ASSUME NEW text \in Sources
  PROVE  /\ Len(text.stmts) \in 0 .. MaxStatements
         /\ text.stmts \in Seq(Statement)
<1>1. PICK n \in 0 .. MaxStatements : \E s \in [1 .. n -> Statement] : text = Source(s)
  BY DEF Sources
<1>2. PICK s \in [1 .. n -> Statement] : text = Source(s)
  BY <1>1
<1>3. n \in Nat
  BY LoaderAssumption
<1>4. s \in Seq(Statement) /\ Len(s) = n
  BY <1>2, <1>3
<1> QED BY <1>2, <1>4 DEF Source

LEMMA FileIn ==
  /\ MainFile \in Places /\ MainFile.name = MainModule
  /\ \A name \in Modules \cup Libraries : File(<<Home>>, name) \in Places
  BY LoaderAssumption DEF MainFile, File, Places

LEMMA AppendPair == \A a, b : Append(<<a>>, b) = <<a, b>>
<1> SUFFICES ASSUME NEW a, NEW b PROVE Append(<<a>>, b) = <<a, b>>
  OBVIOUS
<1> DEFINE S == {a, b}
<1>1. <<a>> \in Seq(S) /\ Len(<<a>>) = 1 /\ <<a>>[1] = a
  OBVIOUS
<1>2. <<a, b>> \in Seq(S) /\ Len(<<a, b>>) = 2 /\ <<a, b>>[1] = a /\ <<a, b>>[2] = b
  OBVIOUS
<1>3. /\ Append(<<a>>, b) \in Seq(S) /\ Len(Append(<<a>>, b)) = 2
      /\ Append(<<a>>, b)[1] = a /\ Append(<<a>>, b)[2] = b
  BY <1>1, AppendProperties
<1>4. \A i \in 1 .. 2 : i = 1 \/ i = 2
  OBVIOUS
<1> HIDE DEF S
<1> QED BY <1>2, <1>3, <1>4, SeqEqual

\* While the tree is visited every place where a file is looked for has a name.
LEMMA PlacesIn ==
  ASSUME cwd = <<Home>>, NEW name \in Modules \cup Libraries, NEW paths,
         paths = IncludePaths \/ paths = LibraryPaths
  PROVE  \A i \in DOMAIN paths :
           /\ InPaths(paths, name)[i] \in Places
           /\ InPaths(paths, name)[i].name = name
<1> SUFFICES ASSUME NEW i \in DOMAIN paths
             PROVE  File(Directory(paths[i]), name) \in Places
  BY DEF InPaths, File
<1>1. paths[i] \in Range(IncludePaths) \cup Range(LibraryPaths)
  BY DEF Range
<1>2. CASE paths[i] \in Relative
  <2>1. Append(<<Home>>, paths[i]) = <<Home, paths[i]>>
    BY AppendPair
  <2>2. Directory(paths[i]) = <<Home, paths[i]>>
    BY <1>2, <2>1 DEF Directory
  <2> QED BY <1>2, <2>2 DEF Places
<1>3. CASE paths[i] \notin Relative
  <2>1. Directory(paths[i]) = <<paths[i]>>
    BY <1>3 DEF Directory
  <2> QED BY <1>1, <2>1 DEF Places
<1> QED BY <1>2, <1>3

\* A list of places, each of them one where a file of this name may be.
Named(places, name) ==
  /\ places \in Seq(Places)
  /\ \A i \in DOMAIN places : places[i].name = name

LEMMA ModulePlacesNamed ==
  ASSUME cwd = <<Home>>, NEW name \in Modules
  PROVE  Named(ModulePlaces(name), name)
<1> DEFINE one == <<File(cwd, name)>>
           rest == InPaths(IncludePaths, name)
<1>1. DOMAIN IncludePaths = 1 .. Len(IncludePaths) /\ Len(IncludePaths) \in Nat
  BY LoaderAssumption
<1>2. \A i \in DOMAIN IncludePaths : rest[i] \in Places /\ rest[i].name = name
  BY PlacesIn
<1>3. DOMAIN rest = DOMAIN IncludePaths
  BY DEF InPaths
<1>4. rest \in Seq(Places) /\ Len(rest) = Len(IncludePaths)
  <2>1. rest = [i \in DOMAIN IncludePaths |-> rest[i]]
    BY DEF InPaths
  <2> HIDE DEF rest
  <2> QED BY <1>1, <1>2, <2>1
<1>5. one \in Seq(Places) /\ Len(one) = 1 /\ one[1] = File(<<Home>>, name)
  BY FileIn
<1>6. File(<<Home>>, name).name = name
  BY DEF File
<1> HIDE DEF one, rest
<1> DEFINE both == one \o rest
<1>7. /\ both \in Seq(Places) /\ Len(both) = Len(one) + Len(rest)
      /\ \A i \in 1 .. Len(one) + Len(rest) :
           both[i] = IF i <= Len(one) THEN one[i] ELSE rest[i - Len(one)]
  BY <1>4, <1>5, ConcatProperties
<1>8. ASSUME NEW i \in DOMAIN both
      PROVE  both[i].name = name
  <2>1. i \in 1 .. 1 + Len(IncludePaths)
    BY <1>4, <1>5, <1>7
  <2>2. i = 1 \/ (~ i <= 1 /\ i - 1 \in DOMAIN IncludePaths)
    BY <1>1, <2>1
  <2> HIDE DEF both
  <2>3. both[i] = IF i <= 1 THEN one[i] ELSE rest[i - 1]
    BY <2>1, <1>4, <1>5, <1>7
  <2> QED BY <2>2, <2>3, <1>2, <1>5, <1>6
<1> QED BY <1>7, <1>8 DEF Named, ModulePlaces, one, rest

LEMMA LibraryPlacesNamed ==
  ASSUME cwd = <<Home>>, NEW name \in Libraries
  PROVE  Named(LibraryPlaces(name), name)
<1> DEFINE last == File(cwd, name)
           rest == InPaths(LibraryPaths, name)
<1>1. DOMAIN LibraryPaths = 1 .. Len(LibraryPaths) /\ Len(LibraryPaths) \in Nat
  BY LoaderAssumption
<1>2. \A i \in DOMAIN LibraryPaths : rest[i] \in Places /\ rest[i].name = name
  BY PlacesIn
<1>3. DOMAIN rest = DOMAIN LibraryPaths
  BY DEF InPaths
<1>4. rest \in Seq(Places) /\ Len(rest) = Len(LibraryPaths)
  <2>1. rest = [i \in DOMAIN LibraryPaths |-> rest[i]]
    BY DEF InPaths
  <2> HIDE DEF rest
  <2> QED BY <1>1, <1>2, <2>1
<1>5. last \in Places /\ last.name = name
  BY FileIn DEF File
<1> HIDE DEF last, rest
<1>6. /\ Append(rest, last) \in Seq(Places)
      /\ \A i \in DOMAIN Append(rest, last) : Append(rest, last)[i].name = name
  BY <1>1, <1>2, <1>3, <1>4, <1>5
<1> QED BY <1>6 DEF Named, LibraryPlaces, last, rest

-----------------------------------------------------------------------------
(* What is learned of the disk.                                            *)

LEMMA LearnTypes ==
  ASSUME DiskType, NEW files \in SUBSET Places, NEW text, \A f \in files : text[f] \in Texts,
         Learn(files, text)
  PROVE  DiskType' /\ Grows /\ files \subseteq DOMAIN disk'
  BY DEF DiskType, Learn, Grows

LEMMA FoundTypes ==
  ASSUME DiskType, NEW places \in Seq(Places), NEW i \in DOMAIN places, NEW text \in Texts,
         FoundAt(places, i, text)
  PROVE  /\ DiskType' /\ Grows
         /\ places[i] \in Places /\ places[i] \in DOMAIN disk' /\ disk'[places[i]] = text
<1> DEFINE files == {places[j] : j \in 1 .. i}
           texts == [f \in files |-> IF f = places[i] THEN text ELSE Absent]
<1>1. i \in 1 .. i /\ 1 .. i \subseteq DOMAIN places
  OBVIOUS
<1>2. files \in SUBSET Places /\ places[i] \in files
  BY <1>1
<1>3. \A f \in files : texts[f] \in Texts
  BY DEF Texts
<1>4. Learn(files, texts) /\ MayBe(places[i], text)
  BY DEF FoundAt
<1>5. texts[places[i]] = text
  BY <1>2
<1> HIDE DEF files, texts
<1>6. DiskType' /\ Grows /\ files \subseteq DOMAIN disk'
  BY <1>2, <1>3, <1>4, LearnTypes
<1>7. disk'[places[i]] = text
  BY <1>2, <1>4, <1>5 DEF Learn, MayBe
<1> QED BY <1>2, <1>6, <1>7

LEMMA NowhereTypes ==
  ASSUME DiskType, NEW places \in Seq(Places), FoundNowhere(places)
  PROVE  DiskType' /\ Grows
<1> DEFINE files == {places[j] : j \in DOMAIN places}
           texts == [f \in files |-> Absent]
<1>1. files \in SUBSET Places
  OBVIOUS
<1>2. \A f \in files : texts[f] \in Texts
  BY DEF Texts
<1>3. Learn(files, texts)
  BY DEF FoundNowhere
<1> HIDE DEF files, texts
<1> QED BY <1>1, <1>2, <1>3, LearnTypes

\* What a visit knows of its file stays true.
LEMMA VisitedStays ==
  ASSUME Grows, used \subseteq used', NEW visit, Visited(visit, disk, used)
  PROVE  Visited(visit, disk', used')
  BY DEF Grows, Visited

-----------------------------------------------------------------------------
(* The files, step by step.                                                *)

LoaderTypes ==
  /\ cwd \in {<<Start>>, <<Home>>}
  /\ loading \in Waiting /\ Len(loading) <= MaxDepth
  /\ imports \subseteq Places
  /\ used \subseteq Modules \X Places

LEMMA FilesKnown ==
  ASSUME FInv
  PROVE  /\ LoaderTypes /\ Files /\ DiskType
         /\ DOMAIN loading = 1 .. Len(loading) /\ Len(loading) \in Nat
  BY LenProperties DEF FInv, TypeOK, LoaderTypes, Files, Waiting

\* Nothing happens to the files.
LEMMA FilesIdle ==
  ASSUME FInv, UNCHANGED loaderVars, pc' # "generate" \/ pc' = pc
  PROVE  LoaderTypes' /\ Files'
<1>1. LoaderTypes /\ Files
  BY FilesKnown
<1>2. LoaderTypes'
  BY <1>1 DEF LoaderTypes, loaderVars
<1>3. DiskType' /\ MainParsed'
  BY <1>1 DEF Files, DiskType, MainParsed, loaderVars
<1>4. \A i \in DOMAIN loading' : Visited(loading'[i], disk', used')
  BY <1>1 DEF Files, loaderVars
<1> QED BY <1>2, <1>3, <1>4 DEF Files

\* No file is visited any more.
LEMMA FilesLeft ==
  ASSUME FInv, DiskType', loading' = <<>>, cwd' \in {<<Start>>, <<Home>>},
         UNCHANGED <<imports, used>>, pc' # "generate"
  PROVE  LoaderTypes' /\ Files'
<1>1. LoaderTypes
  BY FilesKnown
<1>2. <<>> \in Waiting /\ Len(<<>>) = 0 /\ 0 <= MaxDepth
  BY EmptySeq, LoaderAssumption DEF Waiting
<1>3. LoaderTypes'
  BY <1>1, <1>2 DEF LoaderTypes
<1>4. DOMAIN loading' = {}
  OBVIOUS
<1> QED BY <1>3, <1>4 DEF Files, MainParsed

LEMMA DepthType == MaxDepth \in Nat /\ MaxDepth >= 1
<1>1. Cardinality(Modules) \in Nat
  BY LoaderAssumption, FS_CardinalityType
<1> QED BY <1>1, LoaderAssumption

LEMMA ParseFiles ==
  ASSUME FInv, NEW text \in Sources, Parse(text)
  PROVE  LoaderTypes' /\ Files'
<1>1. LoaderTypes /\ Files /\ DiskType
  BY FilesKnown
<1> DEFINE texts == [f \in {MainFile} |-> text]
<1>2. /\ MayBe(MainFile, text) /\ Learn({MainFile}, texts) /\ loading = <<>>
      /\ used' = {<<MainModule, MainFile>>} /\ UNCHANGED <<cwd, loading, imports>>
  BY DEF Parse, ParseMain, Moves, FInv, IInv, Control, Directories
<1>3. MainFile \in Places
  BY FileIn
<1>4. DiskType' /\ MainFile \in DOMAIN disk'
  BY <1>1, <1>2, <1>3, LearnTypes DEF Texts
<1>5. disk'[MainFile] = text
  BY <1>2 DEF Learn, MayBe
<1>6. LoaderTypes'
  BY <1>1, <1>2, <1>3, LoaderAssumption DEF LoaderTypes
<1>7. DOMAIN loading' = {}
  BY <1>2
<1> QED BY <1>2, <1>4, <1>5, <1>6, <1>7 DEF Files, MainParsed

LEMMA GenerateFiles ==
  ASSUME FInv, Generate
  PROVE  LoaderTypes' /\ Files'
<1>1. LoaderTypes /\ Files /\ DiskType
  BY FilesKnown
<1>2. /\ pc = "generate" /\ pc' = "visit" /\ cwd' = <<Home>>
      /\ loading' = <<[file |-> MainFile, done |-> 0]>> /\ UNCHANGED <<disk, imports, used>>
  BY DEF Generate, Moves, OpenTree, Visit
<1>3. MainFile \in Places /\ MainFile.name = MainModule
  BY FileIn
<1>4. MainFile \in DOMAIN disk /\ disk[MainFile] \in Sources /\ <<MainModule, MainFile>> \in used
  BY <1>1, <1>2 DEF Files, MainParsed
<1>5. Len(disk[MainFile].stmts) \in Nat /\ MaxStatements \in Nat
  BY <1>4, TextLength, LoaderAssumption
<1> DEFINE visit == [file |-> MainFile, done |-> 0]
<1>6. visit \in [file : Places, done : 0 .. MaxStatements]
  BY <1>3, <1>5
<1>7. Visited(visit, disk', used')
  BY <1>2, <1>3, <1>4, <1>5 DEF Visited
<1> HIDE DEF visit
<1>8. /\ <<visit>> \in Waiting /\ Len(<<visit>>) = 1
      /\ \A i \in DOMAIN <<visit>> : <<visit>>[i] = visit
  BY <1>6 DEF Waiting
<1>9. loading' = <<visit>>
  BY <1>2 DEF visit
<1>10. LoaderTypes'
  BY <1>1, <1>2, <1>8, <1>9, DepthType DEF LoaderTypes
<1>11. DiskType' /\ MainParsed'
  BY <1>1, <1>2 DEF DiskType, MainParsed
<1> QED BY <1>7, <1>8, <1>9, <1>10, <1>11 DEF Files

\* A statement that is reached is one the file has, and has no other after it yet.
LEMMA PassedKnown ==
  ASSUME FInv, NEW s, At(s)
  PROVE  /\ Passed \in Waiting /\ Len(Passed) = Len(loading)
         /\ \A i \in 1 .. Len(loading) : Visited(Passed[i], disk, used)
<1> DEFINE k == Len(loading)
           done == loading[k].done
           last == [loading[k] EXCEPT !.done = @ + 1]
<1>1. /\ loading \in Waiting /\ k \in Nat /\ DOMAIN loading = 1 .. k
      /\ \A i \in 1 .. k : Visited(loading[i], disk, used)
  BY FilesKnown DEF LoaderTypes, Files
<1>2. k \in 1 .. k
  BY <1>1, EmptySeq DEF At, Waiting
<1>3. loading[k] \in [file : Places, done : 0 .. MaxStatements] /\ MaxStatements \in Nat
  BY <1>1, <1>2, LoaderAssumption, ElementOfSeq DEF Waiting
<1>4. /\ loading[k].file \in DOMAIN disk /\ disk[loading[k].file] \in Sources
      /\ done <= Len(disk[loading[k].file].stmts)
      /\ <<loading[k].file.name, loading[k].file>> \in used
  BY <1>1, <1>2 DEF Visited
<1>5. Len(disk[loading[k].file].stmts) \in 0 .. MaxStatements
  BY <1>4, TextLength
<1>6. done # Len(disk[loading[k].file].stmts)
  BY DEF At, Finished, Innermost
<1>7. done + 1 <= Len(disk[loading[k].file].stmts) /\ done + 1 \in 0 .. MaxStatements
  BY <1>3, <1>4, <1>5, <1>6
<1>8. /\ last \in [file : Places, done : 0 .. MaxStatements]
      /\ last.file = loading[k].file /\ last.done = done + 1
  BY <1>3, <1>7
<1>9. Visited(last, disk, used)
  BY <1>4, <1>7, <1>8 DEF Visited
<1>10. Passed = [loading EXCEPT ![k] = last]
  BY DEF Passed
<1> HIDE DEF last, k
<1>11. /\ Passed \in Waiting /\ Len(Passed) = k
       /\ \A i \in 1 .. k : Passed[i] = IF i = k THEN last ELSE loading[i]
  BY <1>1, <1>2, <1>8, <1>10, ExceptSeq DEF Waiting
<1> QED BY <1>1, <1>9, <1>11 DEF k

LEMMA UseFiles ==
  ASSUME FInv, pc = "visit", UNCHANGED pc, NEW name \in Modules,
         NEW i \in DOMAIN ModulePlaces(name), NEW text \in Sources, OpenUse(name, i, text)
  PROVE  LoaderTypes' /\ Files'
<1> DEFINE places == ModulePlaces(name)
           file == places[i]
           visit == Visit(file)
           k == Len(loading)
<1>1. LoaderTypes /\ Files /\ DiskType /\ k \in Nat /\ cwd = <<Home>>
  BY FilesKnown DEF FInv, IInv, Control, Directories
<1>2. Named(places, name)
  BY <1>1, ModulePlacesNamed
<1>3. places \in Seq(Places) /\ file.name = name
  BY <1>2 DEF Named
<1>4. /\ At([op |-> "use", name |-> name]) /\ k < MaxDepth
      /\ FoundAt(places, i, text) /\ loading' = Append(Passed, visit)
      /\ used' = used \cup {<<name, file>>} /\ UNCHANGED <<cwd, imports>>
  BY DEF OpenUse, Enter
<1>5. /\ Passed \in Waiting /\ Len(Passed) = k
      /\ \A j \in 1 .. k : Visited(Passed[j], disk, used)
  BY <1>4, PassedKnown
<1>6. /\ DiskType' /\ Grows /\ file \in Places
      /\ file \in DOMAIN disk' /\ disk'[file] = text
  BY <1>1, <1>3, <1>4, FoundTypes DEF Texts
<1>7. Len(text.stmts) \in Nat /\ MaxStatements \in Nat
  BY TextLength, LoaderAssumption
<1>8. visit \in [file : Places, done : 0 .. MaxStatements] /\ visit.file = file /\ visit.done = 0
  BY <1>6, <1>7 DEF Visit
<1> HIDE DEF places, file, visit, k
<1>9. Visited(visit, disk', used')
  BY <1>3, <1>4, <1>6, <1>7, <1>8 DEF Visited
<1>10. \A j \in 1 .. k : Visited(Passed[j], disk', used')
  BY <1>4, <1>5, <1>6, VisitedStays
<1>11. /\ loading' \in Waiting /\ Len(loading') = k + 1 /\ DOMAIN loading' = 1 .. k + 1
       /\ \A j \in 1 .. k : loading'[j] = Passed[j]
       /\ loading'[k + 1] = visit
  BY <1>1, <1>4, <1>5, <1>8, AppendProperties, LenProperties DEF Waiting
<1>12. k + 1 <= MaxDepth
  BY <1>1, <1>4, DepthType
<1>13. LoaderTypes'
  BY <1>1, <1>4, <1>6, <1>11, <1>12 DEF LoaderTypes
<1>14. \A j \in DOMAIN loading' : Visited(loading'[j], disk', used')
  BY <1>1, <1>9, <1>10, <1>11
<1> QED BY <1>6, <1>13, <1>14 DEF Files, MainParsed

LEMMA ImportFiles ==
  ASSUME FInv, pc = "visit", UNCHANGED pc, NEW name \in Libraries,
         NEW i \in DOMAIN LibraryPlaces(name), Import(name, i)
  PROVE  LoaderTypes' /\ Files'
<1> DEFINE places == LibraryPlaces(name)
           k == Len(loading)
<1>1. LoaderTypes /\ Files /\ DiskType /\ k \in Nat /\ cwd = <<Home>>
  BY FilesKnown DEF FInv, IInv, Control, Directories
<1>2. places \in Seq(Places)
  BY <1>1, LibraryPlacesNamed DEF Named
<1>3. /\ At([op |-> "import", name |-> name]) /\ FoundAt(places, i, Source(<<>>))
      /\ imports' = imports \cup {places[i]} /\ loading' = Passed /\ UNCHANGED <<cwd, used>>
  BY DEF Import, Remembered
<1>4. /\ Passed \in Waiting /\ Len(Passed) = k
      /\ \A j \in 1 .. k : Visited(Passed[j], disk, used)
  BY <1>3, PassedKnown
<1>5. Source(<<>>) \in Texts
  <2>1. <<>> \in [1 .. 0 -> Statement] /\ 0 \in 0 .. MaxStatements
    BY LoaderAssumption
  <2>2. <<>> \in UNION {[1 .. n -> Statement] : n \in 0 .. MaxStatements}
    BY <2>1
  <2> QED BY <2>2 DEF Texts, Sources
<1>6. DiskType' /\ Grows /\ places[i] \in Places
  BY <1>1, <1>2, <1>3, <1>5, FoundTypes
<1> HIDE DEF places, k
<1>7. \A j \in 1 .. k : Visited(Passed[j], disk', used')
  BY <1>3, <1>4, <1>6, VisitedStays
<1>8. LoaderTypes'
  BY <1>1, <1>3, <1>4, <1>6 DEF LoaderTypes, k
<1>9. \A j \in DOMAIN loading' : Visited(loading'[j], disk', used')
  BY <1>3, <1>4, <1>7, LenProperties DEF Waiting
<1> QED BY <1>6, <1>8, <1>9 DEF Files, MainParsed

LEMMA ReturnFiles ==
  ASSUME FInv, pc = "visit", UNCHANGED pc, CloseUse
  PROVE  LoaderTypes' /\ Files'
<1> DEFINE k == Len(loading) - 1
           w == SubSeq(loading, 1, k)
<1>1. LoaderTypes /\ Files /\ DOMAIN loading = 1 .. Len(loading) /\ Len(loading) \in Nat
  BY FilesKnown
<1>2. /\ Len(loading) > 1 /\ loading' = w /\ UNCHANGED <<cwd, disk, imports, used>>
  BY DEF CloseUse
<1>3. k \in Nat /\ Len(loading) = k + 1
  BY <1>1, <1>2
<1>4. w \in Waiting /\ Len(w) = k /\ \A j \in 1 .. k : w[j] = loading[j]
  <2>1. loading \in Waiting /\ 1 \in Int /\ k \in Int
    BY <1>1, <1>3 DEF LoaderTypes
  <2>2. \A j \in 1 .. k : j \in 1 .. Len(loading)
    BY <1>1, <1>3
  <2>3. \A j \in 1 .. k : loading[j] \in [file : Places, done : 0 .. MaxStatements]
    BY <2>1, <2>2, ElementOfSeq DEF Waiting
  <2> HIDE DEF k
  <2>4. /\ w \in Waiting /\ Len(w) = IF 1 <= k THEN k - 1 + 1 ELSE 0
        /\ \A j \in 1 .. k - 1 + 1 : w[j] = loading[1 + j - 1]
    BY <2>1, <2>3, SubSeqProperties DEF Waiting
  <2> QED BY <1>3, <2>4
<1> HIDE DEF k, w
<1>5. DOMAIN w = 1 .. k /\ \A j \in 1 .. k : j \in DOMAIN loading
  BY <1>1, <1>3, <1>4, LenProperties DEF Waiting
<1>6. LoaderTypes'
  BY <1>1, <1>2, <1>3, <1>4, DepthType DEF LoaderTypes
<1>7. \A j \in DOMAIN loading' : Visited(loading'[j], disk', used')
  BY <1>1, <1>2, <1>4, <1>5 DEF Files
<1> QED BY <1>1, <1>2, <1>6, <1>7 DEF Files, DiskType, MainParsed

\* An exception leaves every visit, having learned of the disk what it looked for.
LEMMA ThrownFiles ==
  ASSUME FInv, LoadFails
  PROVE  LoaderTypes' /\ Files'
<1>1. LoaderTypes /\ DiskType /\ cwd = <<Home>>
  BY FilesKnown DEF FInv, IInv, Control, Directories, LoadFails
<1>2. Unwind /\ pc' = "shutdown"
  BY DEF LoadFails, LoadThrows, UseThrows, ImportThrows, Throw, Catch
<1>3. Broken \in Texts
  BY DEF Texts
<1>4. CASE \E name \in Modules : UseThrows(name)
  <2>1. PICK name \in Modules : UseThrows(name)
    BY <1>4
  <2>2. ModulePlaces(name) \in Seq(Places)
    BY <1>1, ModulePlacesNamed DEF Named
  <2> QED BY <1>1, <1>3, <2>1, <2>2, FoundTypes, NowhereTypes, <1>2, FilesLeft
          DEF UseThrows, Unwind, LoaderTypes
<1>5. CASE \E name \in Libraries : ImportThrows(name)
  <2>1. PICK name \in Libraries : ImportThrows(name)
    BY <1>5
  <2>2. LibraryPlaces(name) \in Seq(Places)
    BY <1>1, LibraryPlacesNamed DEF Named
  <2> QED BY <1>1, <2>1, <2>2, NowhereTypes, <1>2, FilesLeft
          DEF ImportThrows, Unwind, LoaderTypes
<1> QED BY <1>4, <1>5 DEF LoadFails, LoadThrows

\* Every step that is not about the files, or forgets them.
LEMMA FilesStep ==
  ASSUME FInv, [Next]_vars
  PROVE  LoaderTypes' /\ Files'
<1>1. CASE Load
  BY <1>1, UseFiles, ImportFiles, ReturnFiles DEF Load, Loads
<1>2. CASE LoadFails
  BY <1>2, ThrownFiles
<1>3. CASE \E text \in Sources : Parse(text)
  BY <1>3, ParseFiles
<1>4. CASE Generate
  BY <1>4, GenerateFiles
<1>5. CASE Generated
  <2>1. /\ loading' = <<>> /\ cwd' = <<Start>> /\ pc' = "verify"
        /\ UNCHANGED <<disk, imports, used>>
    BY <1>5 DEF Generated, CloseTree, Moves
  <2>2. DiskType'
    BY <2>1, FilesKnown DEF DiskType
  <2> QED BY <2>1, <2>2, FilesLeft
<1>6. ASSUME Unwind, UNCHANGED disk, Throw
      PROVE  LoaderTypes' /\ Files'
  <2>1. /\ loading' = <<>> /\ UNCHANGED <<cwd, disk, imports, used>> /\ pc' = "shutdown"
    BY <1>6 DEF Unwind, Throw, Catch
  <2>2. DiskType' /\ cwd' \in {<<Start>>, <<Home>>}
    BY <2>1, FilesKnown DEF DiskType, LoaderTypes
  <2> QED BY <2>1, <2>2, FilesLeft
<1>7. CASE UNCHANGED loaderVars /\ (pc' # "generate" \/ pc' = pc)
  BY <1>7, FilesIdle
<1>8. \/ Load \/ LoadFails \/ Generate \/ Generated
      \/ \E text \in Sources : Parse(text)
      \/ Unwind /\ UNCHANGED disk /\ Throw
      \/ UNCHANGED loaderVars /\ (pc' # "generate" \/ pc' = pc)
  <2>1. CASE Mistake \/ Help \/ Version \/ NoInput \/ Overflow \/ Exit
    BY <2>1 DEF Mistake, Help, Version, NoInput, Overflow, Exit, Ends
  <2>2. CASE \/ Startup \/ TryBlock \/ MakeTarget \/ Verify \/ Execute \/ Run
             \/ \E written \in BOOLEAN : Emit(written)
             \/ \E library \in imports : LoadLibrary(library)
             \/ \E r \in Results : Return(r)
    BY <2>2 DEF Startup, TryBlock, MakeTarget, Verify, Execute, Run, Emit, LoadLibrary,
       Return, Moves, loaderVars
  <2>3. CASE BareName
    BY <2>3 DEF BareName, Throw, Catch
  <2>4. CASE Fails
    BY <2>4 DEF Fails
  <2>5. CASE Segfault \/ Asked
    BY <2>5 DEF Segfault, SegfaultThrows, Asked, Ends, Unwind, vars, loaderVars
  <2>6. CASE Ended \/ UNCHANGED vars
    BY <2>6 DEF Ended, vars, loaderVars
  <2> QED BY <2>1, <2>2, <2>3, <2>4, <2>5, <2>6 DEF Next, Main, Environment
<1> QED BY <1>1, <1>2, <1>3, <1>4, <1>5, <1>6, <1>7, <1>8

-----------------------------------------------------------------------------
(* The types of the rest.                                                  *)

Phase == {"options", "started", "target", "parse", "generate", "visit", "verify",
          "output", "import", "running", "shutdown", "ended"}

Ending == [by : {"nothing", "exit", "ABRT", "SEGV", "TERM"}, status : 0 .. 255]

ProcessTypes ==
  /\ pc \in Phase /\ command \in Commands /\ {handlers, blocked} \subseteq BOOLEAN
  /\ retval \in {0, 1} \cup Results /\ results \subseteq Results
  /\ outcome \in Ending /\ loaded \subseteq Places

LEMMA EndingType ==
  /\ Running \in Ending
  /\ \A r \in Nat : Exited(r % 256) \in Ending
  /\ \A signal \in {"ABRT", "SEGV", "TERM"} : Killed(signal) \in Ending
<1>1. \A r \in Nat : r % 256 \in 0 .. 255
  OBVIOUS
<1> QED BY <1>1 DEF Running, Exited, Killed, Ending

LEMMA EndTypes ==
  ASSUME ProcessTypes, NEW how \in Ending, Ends(how)
  PROVE  ProcessTypes'
  BY DEF ProcessTypes, Ends, Phase

LEMMA ThrowTypes ==
  ASSUME ProcessTypes, Throw, blocked' \in BOOLEAN
  PROVE  ProcessTypes'
  BY DEF ProcessTypes, Throw, Catch, Phase

LEMMA ProcessStep ==
  ASSUME FInv, [Next]_vars
  PROVE  ProcessTypes'
<1>1. ProcessTypes /\ imports \subseteq Places /\ Results \subseteq Nat
  BY DriverAssumption DEF FInv, TypeOK, ProcessTypes, Phase, Ending
<1>2. CASE Mistake \/ Help \/ Version \/ NoInput \/ Overflow \/ Exit
  <2>1. \/ \E signal \in {"ABRT", "SEGV"} : Ends(Killed(signal))
        \/ \E r \in {0, 1, retval} : Ends(Exited(r % 256))
    <3>1. 0 % 256 = 0 /\ 1 % 256 = 1
      OBVIOUS
    <3> QED BY <1>2, <3>1 DEF Mistake, Help, Version, NoInput, Overflow, Exit, Status
  <2>2. {0, 1, retval} \subseteq Nat
    BY <1>1 DEF ProcessTypes
  <2> QED BY <1>1, <2>1, <2>2, EndingType, EndTypes
<1>3. CASE \/ Startup \/ TryBlock \/ MakeTarget \/ Generate \/ Generated \/ Verify
           \/ Execute \/ Run \/ Load
           \/ \E text \in Sources : Parse(text)
  BY <1>1, <1>3 DEF ProcessTypes, Startup, TryBlock, MakeTarget, Generate, Generated, Verify,
     Execute, Run, Load, Parse, Moves, Stays, Phase
<1>4. CASE \E written \in BOOLEAN : Emit(written)
  BY <1>1, <1>4 DEF ProcessTypes, Emit, Moves, Phase
<1>5. CASE \E library \in imports : LoadLibrary(library)
  BY <1>1, <1>5 DEF ProcessTypes, LoadLibrary
<1>6. CASE \E r \in Results : Return(r)
  BY <1>1, <1>6 DEF ProcessTypes, Return, Moves, Phase
<1>7. CASE BareName \/ LoadFails \/ Fails
  <2>1. Throw /\ UNCHANGED blocked
    BY <1>7 DEF BareName, LoadFails, Fails
  <2> QED BY <1>1, <2>1, ThrowTypes DEF ProcessTypes
<1>8. CASE Segfault
  <2>1. CASE Throw /\ blocked' = TRUE
    BY <1>1, <2>1, ThrowTypes
  <2>2. CASE \E signal \in {"ABRT", "SEGV"} : Ends(Killed(signal))
    BY <1>1, <2>2, EndingType, EndTypes
  <2> QED BY <1>8, <2>1, <2>2 DEF Segfault, SegfaultThrows
<1>9. CASE UNCHANGED vars
  BY <1>1, <1>9 DEF ProcessTypes, vars
<1>10. CASE Asked
  <2>1. CASE Ends(Killed("TERM"))
    BY <1>1, <2>1, EndingType, EndTypes
  <2> QED BY <1>9, <1>10, <2>1 DEF Asked
<1> QED BY <1>2, <1>3, <1>4, <1>5, <1>6, <1>7, <1>8, <1>9, <1>10
        DEF Next, Main, Environment, Ended

LEMMA InitFiles == Init => FInv
<1> SUFFICES ASSUME Init PROVE FInv
  OBVIOUS
<1>1. IInv
  BY InitControl DEF IInv, UsesResolved, Init, LoaderInit
<1>2. <<>> \in Waiting /\ Len(<<>>) = 0
  BY EmptySeq DEF Waiting
<1>3. /\ cwd = <<Start>> /\ DOMAIN disk = {} /\ loading = <<>> /\ imports = {} /\ used = {}
      /\ pc = "options" /\ command \in Commands /\ handlers = FALSE /\ blocked = FALSE
      /\ retval = 0 /\ loaded = {} /\ results = {} /\ outcome = Running
  BY DEF Init, LoaderInit
<1>4. LoaderTypes /\ DiskType
  BY <1>2, <1>3, DepthType DEF LoaderTypes, DiskType
<1>5. ProcessTypes
  BY <1>3, EndingType DEF ProcessTypes, Phase
<1>6. TypeOK
  BY <1>4, <1>5 DEF TypeOK, LoaderTypes, ProcessTypes, DiskType, Texts, Waiting, Phase, Ending
<1>7. Files
  BY <1>3 DEF Files, DiskType, MainParsed
<1> QED BY <1>1, <1>6, <1>7 DEF FInv

LEMMA NextFiles ==
  ASSUME FInv, [Next]_vars
  PROVE  FInv'
<1>1. IInv'
  BY StepControl, StepUses DEF FInv, IInv
<1>2. LoaderTypes' /\ Files' /\ ProcessTypes'
  BY FilesStep, ProcessStep
<1>3. TypeOK'
  BY <1>2 DEF TypeOK, LoaderTypes, ProcessTypes, Files, DiskType, Texts, Waiting, Phase, Ending
<1> QED BY <1>1, <1>2, <1>3 DEF FInv

-----------------------------------------------------------------------------
(* The theorems.                                                           *)

\* The invariant holds of every state the process can be in.
THEOREM Invariance == Spec => []IInv
<1>1. Init => IInv
  BY InitControl DEF IInv, UsesResolved, Init, LoaderInit
<1>2. IInv /\ [Next]_vars => IInv'
  BY StepControl, StepUses DEF IInv
<1> QED BY <1>1, <1>2, PTL DEF Spec

\* exo exits with 0 only if help or the version was asked for, or the program ran to its
\* end and returned a multiple of 256: of every program, emission and failure.
THEOREM ExitStatusTold == Spec => []ExitStatus
<1>1. IInv => ExitStatus
  BY DEF IInv, Control
<1> QED BY <1>1, Invariance, PTL

\* What is emitted goes to the directory that exo was started in.
THEOREM OutputPlaced == Spec => []OutputInStartDirectory
<1>1. IInv => OutputInStartDirectory
  BY DEF IInv, Control, Emitted, Placed, OutputInStartDirectory
<1> QED BY <1>1, Invariance, PTL

\* Two uses of a name are of the first of the same places, and the disk does not say
\* of a file both that it is there and that it is not.
LEMMA FirstIsOne ==
  ASSUME NEW name, NEW f, NEW g, Resolved(name, f, disk), Resolved(name, g, disk)
  PROVE  f = g
<1>1. PICK i \in DOMAIN HomePlaces(name) :
        /\ f = HomePlaces(name)[i] /\ disk[f].there
        /\ \A j \in 1 .. i - 1 : HomePlaces(name)[j] = f \/ disk[HomePlaces(name)[j]] = Absent
  BY DEF Resolved
<1>2. PICK k \in DOMAIN HomePlaces(name) :
        /\ g = HomePlaces(name)[k] /\ disk[g].there
        /\ \A j \in 1 .. k - 1 : HomePlaces(name)[j] = g \/ disk[HomePlaces(name)[j]] = Absent
  BY DEF Resolved
<1>3. ~Absent.there
  BY DEF Absent
<1>4. i = k \/ i \in 1 .. k - 1 \/ k \in 1 .. i - 1
  BY PlacesIndexed
<1> QED BY <1>1, <1>2, <1>3, <1>4

LEMMA OneFile ==
  ASSUME IInv
  PROVE  UsesResolveAlike
<1> SUFFICES ASSUME NEW u \in used, NEW v \in used, u[1] = v[1]
             PROVE  u[2] = v[2]
  BY DEF UsesResolveAlike
<1>1. Resolved(u[1], u[2], disk) /\ Resolved(v[1], v[2], disk)
  BY DEF IInv, UsesResolved
<1> QED BY <1>1, FirstIsOne

\* A name is one file throughout a compilation, for any number of modules, any search
\* path and any files.
THEOREM OneFilePerName == Spec => []UsesResolveAlike
<1>1. IInv => UsesResolveAlike
  BY OneFile
<1> QED BY <1>1, Invariance, PTL

\* The types of the process, whatever files there are and whatever they use.
THEOREM TypeCorrect == Spec => []TypeOK
<1>1. FInv => TypeOK
  BY DEF FInv
<1> QED BY <1>1, InitFiles, NextFiles, PTL DEF Spec

\* Two files being visited that have one name are one file.
LEMMA Recurs ==
  ASSUME FInv, Len(loading) = MaxDepth
  PROVE  \E i, j \in DOMAIN loading : i < j /\ loading[i].file = loading[j].file
<1> DEFINE S == 1 .. Len(loading)
           name == [i \in S |-> loading[i].file.name]
<1>1. /\ DOMAIN loading = S /\ Len(loading) \in Nat
      /\ \A i \in S : /\ <<loading[i].file.name, loading[i].file>> \in used
                      /\ loading[i].file.name \in Modules
  <2>1. used \subseteq Modules \X Places
    BY FilesKnown DEF LoaderTypes
  <2> QED BY <2>1, FilesKnown DEF Files, Visited
<1>2. IsFiniteSet(S) /\ Cardinality(S) = Len(loading)
  <2>1. 1 \in Int /\ Len(loading) \in Int /\ Len(loading) >= 1
    BY <1>1, DepthType
  <2>2. IsFiniteSet(S) /\ Cardinality(S) = IF 1 > Len(loading) THEN 0 ELSE Len(loading) - 1 + 1
    BY <2>1, FS_Interval
  <2> QED BY <2>1, <2>2
<1>3. IsFiniteSet(Modules) /\ Cardinality(Modules) < Cardinality(S)
  <2>1. IsFiniteSet(Modules) /\ Cardinality(Modules) \in Nat /\ MaxDepth \in Nat
        /\ MaxDepth > Cardinality(Modules)
    BY LoaderAssumption, FS_CardinalityType
  <2> QED BY <2>1, <1>2
<1>4. name \in [S -> Modules]
  BY <1>1
<1> HIDE DEF S, name
<1>5. PICK i, j \in S : i # j /\ name[i] = name[j]
  BY <1>2, <1>3, <1>4, FS_PigeonHole
<1>6. loading[i].file.name = loading[j].file.name
  BY <1>5 DEF name
<1>7. UsesResolveAlike
  BY OneFile DEF FInv
<1>8. loading[i].file = loading[j].file
  BY <1>1, <1>5, <1>6, <1>7 DEF UsesResolveAlike
<1>9. i < j \/ j < i
  BY <1>1, <1>5 DEF S
<1> QED BY <1>1, <1>5, <1>8, <1>9

\* Only a cycle of uses visits more files at once than there are modules: no program
\* without one exhausts a stack that has room for them, for any number of modules and
\* any search path.
THEOREM OnlyRecursion == Spec => []OnlyRecursionExhausts
<1>1. FInv => OnlyRecursionExhausts
  BY Recurs DEF OnlyRecursionExhausts
<1> QED BY <1>1, InitFiles, NextFiles, PTL DEF Spec

-----------------------------------------------------------------------------
(* What a program that runs consists of.                                   *)

\* A statement has had its effect.
Handled(s, u, libraries) ==
  \/ s.op = "use" /\ \E v \in u : v[1] = s.name
  \/ s.op = "import" /\ \E l \in libraries : l.name = s.name

\* Every statement of a visit up to where it is now.
Covers(visit, d, u, libraries) ==
  \A i \in 1 .. visit.done : Handled(d[visit.file].stmts[i], u, libraries)

\* Every statement of a file.
Complete(file, d, u, libraries) ==
  \A i \in DOMAIN d[file].stmts : Handled(d[file].stmts[i], u, libraries)

\* Each file that was used is complete, or will be when a visit to it ends.
Pending ==
  \A u \in used :
    \/ Complete(u[2], disk, used, imports)
    \/ \E i \in DOMAIN loading : loading[i].file = u[2]

\* Nothing is imported that no file asks for.
Asks(file, d, library) ==
  \E i \in DOMAIN d[file].stmts : d[file].stmts[i] = [op |-> "import", name |-> library.name]

Justified == \A l \in imports : \E u \in used : Asks(u[2], disk, l)

\* What is known of the program before, during and after its visit.
Whole ==
  /\ \A i \in DOMAIN loading : Covers(loading[i], disk, used, imports)
  /\ Justified
  /\ pc \in {"options", "started", "target", "parse"} => imports = {}
  /\ pc = "generate" => used = {<<MainModule, MainFile>>}
  /\ pc = "visit" => Pending /\ <<MainModule, MainFile>> \in used
  /\ pc \in {"verify", "output", "import", "running"} \/ results # {} =>
       /\ \A u \in used : Complete(u[2], disk, used, imports)
       /\ <<MainModule, MainFile>> \in used

WInv == FInv /\ Whole

\* Every file that was used is known.
LEMMA UsedKnown ==
  ASSUME IInv, NEW u \in used
  PROVE  u[2] \in DOMAIN disk
  BY DEF IInv, UsesResolved, Resolved

\* What had its effect keeps it.
LEMMA HandledStays ==
  ASSUME used \subseteq used', imports \subseteq imports', NEW s, Handled(s, used, imports)
  PROVE  Handled(s, used', imports')
  BY DEF Handled

LEMMA CompleteStays ==
  ASSUME Grows, used \subseteq used', imports \subseteq imports',
         NEW f \in DOMAIN disk, Complete(f, disk, used, imports)
  PROVE  Complete(f, disk', used', imports')
  BY HandledStays DEF Grows, Complete

LEMMA CoversStays ==
  ASSUME Grows, used \subseteq used', imports \subseteq imports',
         NEW visit, visit.file \in DOMAIN disk, Covers(visit, disk, used, imports)
  PROVE  Covers(visit, disk', used', imports')
  BY HandledStays DEF Grows, Covers

LEMMA AsksStays ==
  ASSUME Grows, NEW f \in DOMAIN disk, NEW l, Asks(f, disk, l)
  PROVE  Asks(f, disk', l)
  BY DEF Grows, Asks

LEMMA JustifiedStays ==
  ASSUME WInv, Grows, used \subseteq used', UNCHANGED imports
  PROVE  Justified'
<1> SUFFICES ASSUME NEW l \in imports
             PROVE  \E u \in used' : Asks(u[2], disk', l)
  BY DEF Justified
<1>1. PICK u \in used : Asks(u[2], disk, l)
  BY DEF WInv, Whole, Justified
<1> QED BY <1>1, UsedKnown, AsksStays DEF WInv, FInv

\* In which phases nothing was found yet, and in which everything was.
Early == pc \in {"options", "started", "target", "parse"}
Late  == pc \in {"verify", "output", "import", "running"} \/ results # {}

\* A program has a result only when main() is done with it.
LEMMA NoResultYet ==
  ASSUME FInv, pc \notin {"shutdown", "ended"}
  PROVE  results = {}
  BY DEF FInv, IInv, Control, Phases

\* Nothing happens to the files, and the phase claims no more of them.
LEMMA WholeIdle ==
  ASSUME WInv, UNCHANGED loaderVars, Early' => Early, Late' => Late,
         pc' \in {"generate", "visit"} => pc' = pc
  PROVE  Whole'
<1>1. /\ \A i \in DOMAIN loading' : Covers(loading'[i], disk', used', imports')
      /\ Justified'
  BY DEF WInv, Whole, Justified, loaderVars
<1>2. /\ Early' => imports' = {}
      /\ pc' = "generate" => used' = {<<MainModule, MainFile>>}
      /\ pc' = "visit" => Pending' /\ <<MainModule, MainFile>> \in used'
  BY DEF WInv, Whole, Early, Pending, loaderVars
<1>3. Late' => /\ \A u \in used' : Complete(u[2], disk', used', imports')
               /\ <<MainModule, MainFile>> \in used'
  BY DEF WInv, Whole, Late, loaderVars
<1> QED BY <1>1, <1>2, <1>3 DEF Whole, Early, Late

\* An exception leaves a program that will not run.
LEMMA WholeLeft ==
  ASSUME WInv, Grows, UNCHANGED <<imports, used>>, loading' = <<>>, pc' = "shutdown",
         results' = {}
  PROVE  Whole'
  BY JustifiedStays DEF Whole

LEMMA ParseWhole ==
  ASSUME WInv, NEW text \in Sources, Parse(text)
  PROVE  Whole'
<1>1. /\ pc = "parse" /\ pc' = "generate" /\ results' = results /\ loading' = loading
      /\ used' = {<<MainModule, MainFile>>} /\ imports' = imports
  BY DEF Parse, ParseMain, Moves, Stays
<1>2. imports = {} /\ results = {} /\ loading = <<>>
  BY <1>1, NoResultYet DEF WInv, Whole, FInv, IInv, Control, Directories
<1> QED BY <1>1, <1>2 DEF Whole, Justified

LEMMA GenerateWhole ==
  ASSUME WInv, Generate
  PROVE  Whole'
<1>1. /\ pc = "generate" /\ pc' = "visit" /\ results' = results
      /\ loading' = <<[file |-> MainFile, done |-> 0]>> /\ UNCHANGED <<disk, imports, used>>
  BY DEF Generate, Moves, OpenTree, Visit, Stays
<1>2. results = {} /\ used = {<<MainModule, MainFile>>}
  BY <1>1, NoResultYet DEF WInv, Whole
<1> DEFINE visit == [file |-> MainFile, done |-> 0]
<1>3. Covers(visit, disk', used', imports') /\ visit.file = MainFile
  BY DEF Covers
<1> HIDE DEF visit
<1>4. loading' = <<visit>>
  BY <1>1 DEF visit
<1>5. 1 \in DOMAIN loading' /\ \A i \in DOMAIN loading' : loading'[i] = visit
  BY <1>4
<1>6. Pending'
  BY <1>1, <1>2, <1>3, <1>5 DEF Pending
<1>7. Justified'
  BY <1>1 DEF WInv, Whole, Justified
<1> QED BY <1>1, <1>2, <1>3, <1>5, <1>6, <1>7 DEF Whole

\* A statement that is passed is the next of the innermost file; the others stay.
LEMMA PassedMoves ==
  ASSUME FInv, NEW s, At(s)
  PROVE  LET k == Len(loading)
             file == loading[k].file
             next == loading[k].done + 1
         IN  /\ k \in Nat /\ k \in 1 .. k /\ DOMAIN loading = 1 .. k
             /\ loading[k].done \in Nat
             /\ file \in DOMAIN disk /\ <<file.name, file>> \in used
             /\ next \in DOMAIN disk[file].stmts /\ s = disk[file].stmts[next]
             /\ Len(Passed) = k
             /\ Passed[k].file = file /\ Passed[k].done = next
             /\ \A i \in 1 .. k : i # k => Passed[i] = loading[i]
<1> DEFINE k == Len(loading)
           done == loading[k].done
           file == loading[k].file
           last == [loading[k] EXCEPT !.done = @ + 1]
<1>1. /\ loading \in Waiting /\ k \in Nat /\ DOMAIN loading = 1 .. k
      /\ \A i \in 1 .. k : Visited(loading[i], disk, used)
  BY FilesKnown DEF LoaderTypes, Files
<1>2. k \in 1 .. k
  BY <1>1, EmptySeq DEF At, Waiting
<1>3. loading[k] \in [file : Places, done : 0 .. MaxStatements] /\ MaxStatements \in Nat
  BY <1>1, <1>2, LoaderAssumption, ElementOfSeq DEF Waiting
<1>4. /\ file \in DOMAIN disk /\ disk[file] \in Sources
      /\ done <= Len(disk[file].stmts) /\ <<file.name, file>> \in used
  BY <1>1, <1>2 DEF Visited
<1>5. disk[file].stmts \in Seq(Statement) /\ Len(disk[file].stmts) \in Nat
  BY <1>3, <1>4, TextLength
<1>6. done # Len(disk[file].stmts) /\ s = disk[file].stmts[done + 1]
  BY DEF At, Finished, Innermost
<1>7. done \in Nat
  BY <1>3
<1> HIDE DEF done
<1>8. done + 1 \in DOMAIN disk[file].stmts
  BY <1>4, <1>5, <1>6, <1>7
<1>9. last.file = file /\ last.done = done + 1
  BY <1>3 DEF done
<1>10. Passed = [loading EXCEPT ![k] = last]
  BY DEF Passed
<1> HIDE DEF last, k, file
<1>11. Len(Passed) = k /\ \A i \in 1 .. k : Passed[i] = IF i = k THEN last ELSE loading[i]
  BY <1>1, <1>2, <1>10, ExceptSeq DEF Waiting, k
<1> QED BY <1>1, <1>2, <1>4, <1>6, <1>7, <1>8, <1>9, <1>11 DEF k, file, done

\* Passing a statement that has its effect keeps what is known of the visits.
LEMMA PassedCovers ==
  ASSUME WInv, NEW s, At(s), Grows, used \subseteq used', imports \subseteq imports',
         Handled(s, used', imports')
  PROVE  \A i \in 1 .. Len(loading) : Covers(Passed[i], disk', used', imports')
<1> DEFINE k == Len(loading)
           file == loading[k].file
           next == loading[k].done + 1
<1>1. /\ k \in Nat /\ k \in 1 .. k /\ DOMAIN loading = 1 .. k /\ next \in Nat \ {0}
      /\ file \in DOMAIN disk /\ s = disk[file].stmts[next]
      /\ Passed[k].file = file /\ Passed[k].done = next
      /\ \A i \in 1 .. k : i # k => Passed[i] = loading[i]
      /\ loading[k].done = next - 1
  BY PassedMoves DEF WInv
<1>2. disk'[file] = disk[file]
  BY <1>1 DEF Grows
<1>3. \A i \in 1 .. k : /\ Covers(loading[i], disk, used, imports)
                        /\ loading[i].file \in DOMAIN disk
  BY <1>1, FilesKnown DEF WInv, Whole, Files, Visited
<1> HIDE DEF k, file, next
<1>4. Covers(Passed[k], disk', used', imports')
  <2> SUFFICES ASSUME NEW j \in 1 .. next
               PROVE  Handled(disk'[file].stmts[j], used', imports')
    BY <1>1 DEF Covers
  <2>1. CASE j = next
    BY <2>1, <1>1, <1>2
  <2>2. CASE j \in 1 .. next - 1
    <3>1. Handled(disk[file].stmts[j], used, imports)
      <4>1. Covers(loading[k], disk, used, imports) /\ loading[k].file = file
        BY <1>1, <1>3 DEF file
      <4> QED BY <1>1, <2>2, <4>1 DEF Covers
    <3> QED BY <1>2, <3>1, HandledStays
  <2> QED BY <1>1, <2>1, <2>2
<1>5. ASSUME NEW i \in 1 .. k, i # k
      PROVE  Covers(Passed[i], disk', used', imports')
  BY <1>1, <1>3, <1>5, CoversStays
<1> QED BY <1>4, <1>5 DEF k

\* What was used stays complete, or has its visit still.
LEMMA PassedPending ==
  ASSUME WInv, pc = "visit", NEW s, At(s), Grows, used \subseteq used', imports \subseteq imports'
  PROVE  \A u \in used : \/ Complete(u[2], disk', used', imports')
                         \/ \E i \in 1 .. Len(loading) : Passed[i].file = u[2]
<1> SUFFICES ASSUME NEW u \in used
             PROVE  \/ Complete(u[2], disk', used', imports')
                    \/ \E i \in 1 .. Len(loading) : Passed[i].file = u[2]
  OBVIOUS
<1>1. \/ Complete(u[2], disk, used, imports)
      \/ \E i \in DOMAIN loading : loading[i].file = u[2]
  BY DEF WInv, Whole, Pending
<1>2. CASE Complete(u[2], disk, used, imports)
  BY <1>2, CompleteStays, UsedKnown DEF WInv, FInv
<1>3. CASE \E i \in DOMAIN loading : loading[i].file = u[2]
  <2>1. PICK i \in DOMAIN loading : loading[i].file = u[2]
    BY <1>3
  <2>2. i \in 1 .. Len(loading) /\ Passed[i].file = loading[i].file
    BY PassedMoves DEF WInv
  <2> QED BY <2>1, <2>2
<1> QED BY <1>1, <1>2, <1>3

LEMMA UseWhole ==
  ASSUME WInv, pc = "visit", UNCHANGED <<pc, results>>, NEW name \in Modules,
         NEW i \in DOMAIN ModulePlaces(name), NEW text \in Sources, OpenUse(name, i, text)
  PROVE  Whole'
<1> DEFINE places == ModulePlaces(name)
           file == places[i]
           visit == Visit(file)
           s == [op |-> "use", name |-> name]
           k == Len(loading)
<1>1. /\ At(s) /\ FoundAt(places, i, text) /\ loading' = Append(Passed, visit)
      /\ used' = used \cup {<<name, file>>} /\ UNCHANGED imports
  BY DEF OpenUse
<1>2. Grows
  BY <1>1, LearnGrows DEF FoundAt
<1>3. Handled(s, used', imports')
  <2>1. /\ <<name, file>> \in used' /\ <<name, file>>[1] = name
        /\ s.op = "use" /\ s.name = name
    BY <1>1
  <2> HIDE DEF s, file
  <2> QED BY <2>1 DEF Handled
<1>4. results = {} /\ <<MainModule, MainFile>> \in used
  BY NoResultYet DEF WInv, Whole
<1>5. Passed \in Waiting /\ Len(Passed) = k /\ k \in Nat
  BY <1>1, PassedKnown, PassedMoves DEF WInv
<1>6. visit.file = file /\ visit.done = 0
  BY DEF Visit
<1>7. used \subseteq used' /\ imports \subseteq imports'
  BY <1>1
<1> HIDE DEF s, k
<1>8. /\ \A j \in 1 .. k : Covers(Passed[j], disk', used', imports')
      /\ \A u \in used : \/ Complete(u[2], disk', used', imports')
                         \/ \E j \in 1 .. k : Passed[j].file = u[2]
  BY <1>1, <1>2, <1>3, <1>7, PassedCovers, PassedPending DEF k
<1> HIDE DEF places, file, visit
<1>9. Covers(visit, disk', used', imports')
  BY <1>6 DEF Covers
<1>10. /\ DOMAIN loading' = 1 .. k + 1 /\ loading'[k + 1] = visit
       /\ \A j \in 1 .. k : loading'[j] = Passed[j]
  <2>1. /\ \A j \in 1 .. Len(Passed) : Append(Passed, visit)[j] = Passed[j]
        /\ Append(Passed, visit)[Len(Passed) + 1] = visit
        /\ DOMAIN Append(Passed, visit) = 1 .. Len(Passed) + 1
    BY <1>5 DEF Waiting
  <2> QED BY <1>1, <1>5, <2>1
<1>11. \A j \in DOMAIN loading' : Covers(loading'[j], disk', used', imports')
  BY <1>5, <1>8, <1>9, <1>10
<1>12. Pending'
  <2> SUFFICES ASSUME NEW u \in used'
               PROVE  \/ Complete(u[2], disk', used', imports')
                      \/ \E j \in DOMAIN loading' : loading'[j].file = u[2]
    BY DEF Pending
  <2>1. CASE u \in used
    <3>1. CASE \E j \in 1 .. k : Passed[j].file = u[2]
      BY <1>5, <1>10, <3>1
    <3> QED BY <1>8, <2>1, <3>1
  <2>2. CASE u = <<name, file>>
    BY <1>5, <1>6, <1>10, <2>2
  <2> QED BY <1>1, <2>1, <2>2
<1> QED BY <1>1, <1>2, <1>4, <1>7, <1>11, <1>12, JustifiedStays DEF Whole

LEMMA ImportWhole ==
  ASSUME WInv, pc = "visit", UNCHANGED <<pc, results>>, NEW name \in Libraries,
         NEW i \in DOMAIN LibraryPlaces(name), Import(name, i)
  PROVE  Whole'
<1> DEFINE places == LibraryPlaces(name)
           s == [op |-> "import", name |-> name]
           k == Len(loading)
           file == loading[k].file
<1>1. /\ At(s) /\ FoundAt(places, i, Source(<<>>)) /\ loading' = Passed
      /\ imports' = imports \cup {places[i]} /\ UNCHANGED used
  BY DEF Import, Remembered
<1>2. Grows
  BY <1>1, LearnGrows DEF FoundAt
<1>3. places[i].name = name
  <2>1. cwd = <<Home>>
    BY DEF WInv, FInv, IInv, Control, Directories
  <2> QED BY <2>1, LibraryPlacesNamed DEF Named
<1>4. results = {} /\ <<MainModule, MainFile>> \in used
  BY NoResultYet DEF WInv, Whole
<1>5. /\ Passed \in Waiting /\ Len(Passed) = k /\ k \in Nat
      /\ file \in DOMAIN disk /\ <<file.name, file>> \in used
      /\ \E n \in DOMAIN disk[file].stmts : s = disk[file].stmts[n]
  BY <1>1, PassedKnown, PassedMoves DEF WInv
<1>6. Handled(s, used', imports') /\ used \subseteq used' /\ imports \subseteq imports'
  BY <1>1, <1>3 DEF Handled
<1>7. s = [op |-> "import", name |-> places[i].name]
  BY <1>3
<1> HIDE DEF s, k, file, places
<1>8. /\ \A j \in 1 .. k : Covers(Passed[j], disk', used', imports')
      /\ \A u \in used : \/ Complete(u[2], disk', used', imports')
                         \/ \E j \in 1 .. k : Passed[j].file = u[2]
  BY <1>1, <1>2, <1>6, PassedCovers, PassedPending DEF k
<1>9. DOMAIN loading' = 1 .. k
  BY <1>1, <1>5, LenProperties DEF Waiting
<1>10. (\A j \in DOMAIN loading' : Covers(loading'[j], disk', used', imports')) /\ Pending'
  BY <1>1, <1>8, <1>9 DEF Pending
<1>11. Justified'
  <2> SUFFICES ASSUME NEW l \in imports'
               PROVE  \E u \in used' : Asks(u[2], disk', l)
    BY DEF Justified
  <2>1. CASE l \in imports
    <3>1. PICK u \in used : Asks(u[2], disk, l)
      BY <2>1 DEF WInv, Whole, Justified
    <3> QED BY <1>1, <1>2, <3>1, UsedKnown, AsksStays DEF WInv, FInv
  <2>2. CASE l = places[i]
    <3>1. Asks(file, disk, l)
      BY <1>5, <1>7, <2>2 DEF Asks
    <3>2. Asks(file, disk', l)
      BY <1>2, <1>5, <3>1, AsksStays
    <3> QED BY <1>1, <1>5, <3>2
  <2> QED BY <1>1, <2>1, <2>2
<1> QED BY <1>1, <1>4, <1>10, <1>11 DEF Whole

\* A visit that ends has had every statement of its file.
LEMMA FinishedComplete ==
  ASSUME WInv, loading # <<>>, Finished
  PROVE  Complete(Innermost.file, disk, used, imports)
<1>1. /\ Len(loading) \in DOMAIN loading
      /\ Visited(Innermost, disk, used) /\ Covers(Innermost, disk, used, imports)
  <2>1. Len(loading) \in 1 .. Len(loading)
    BY FilesKnown, EmptySeq DEF WInv, LoaderTypes, Waiting
  <2> QED BY <2>1, FilesKnown DEF WInv, Whole, Files, Innermost
<1>2. disk[Innermost.file].stmts \in Seq(Statement)
  BY <1>1, TextLength DEF Visited
<1>3. DOMAIN disk[Innermost.file].stmts = 1 .. Innermost.done
  BY <1>2, LenProperties DEF Finished
<1> QED BY <1>1, <1>3 DEF Covers, Complete

LEMMA ReturnWhole ==
  ASSUME WInv, pc = "visit", UNCHANGED <<pc, results>>, CloseUse
  PROVE  Whole'
<1> DEFINE k == Len(loading) - 1
           w == SubSeq(loading, 1, k)
<1>1. LoaderTypes /\ DOMAIN loading = 1 .. Len(loading) /\ Len(loading) \in Nat
  BY FilesKnown DEF WInv
<1>2. Len(loading) > 1 /\ Finished /\ loading' = w /\ UNCHANGED <<disk, imports, used>>
  BY DEF CloseUse
<1>3. k \in Nat /\ Len(loading) = k + 1 /\ loading # <<>>
  BY <1>1, <1>2, EmptySeq
<1>4. DOMAIN w = 1 .. k /\ \A j \in 1 .. k : w[j] = loading[j]
  BY <1>1, <1>3 DEF LoaderTypes, Waiting
<1>5. Complete(loading[k + 1].file, disk, used, imports)
  BY <1>2, <1>3, FinishedComplete DEF Innermost
<1>6. results = {} /\ <<MainModule, MainFile>> \in used /\ Justified'
  BY <1>2, NoResultYet DEF WInv, Whole, Justified
<1> HIDE DEF k, w
<1>7. \A j \in DOMAIN loading' : Covers(loading'[j], disk', used', imports')
  <2>1. \A j \in 1 .. k : j \in DOMAIN loading
    BY <1>1, <1>3
  <2> QED BY <1>2, <1>4, <2>1 DEF WInv, Whole
<1>8. Pending'
  <2> SUFFICES ASSUME NEW u \in used
               PROVE  \/ Complete(u[2], disk, used, imports)
                      \/ \E j \in DOMAIN w : w[j].file = u[2]
    BY <1>2 DEF Pending
  <2>1. CASE \E j \in DOMAIN loading : loading[j].file = u[2]
    <3>1. PICK j \in DOMAIN loading : loading[j].file = u[2]
      BY <2>1
    <3>2. j = k + 1 \/ j \in 1 .. k
      BY <1>1, <1>3
    <3> QED BY <1>4, <1>5, <3>1, <3>2
  <2> QED BY <2>1 DEF WInv, Whole, Pending
<1> QED BY <1>2, <1>6, <1>7, <1>8 DEF Whole

\* The tree's visit is the last to end.
LEMMA GeneratedWhole ==
  ASSUME WInv, Generated
  PROVE  Whole'
<1>1. /\ pc = "visit" /\ pc' = "verify" /\ Len(loading) = 1 /\ Finished /\ loading' = <<>>
      /\ UNCHANGED <<disk, imports, used, results>>
  BY DEF Generated, CloseTree, Moves, Stays
<1>2. loading # <<>> /\ DOMAIN loading = {1}
  BY <1>1, FilesKnown, EmptySeq DEF WInv
<1>3. Complete(loading[1].file, disk, used, imports)
  BY <1>1, <1>2, FinishedComplete DEF Innermost
<1>4. \A u \in used : Complete(u[2], disk, used, imports)
  BY <1>1, <1>2, <1>3 DEF WInv, Whole, Pending
<1>5. Justified' /\ <<MainModule, MainFile>> \in used
  BY <1>1 DEF WInv, Whole, Justified
<1> QED BY <1>1, <1>4, <1>5 DEF Whole

\* Every step of the process.
LEMMA StepWhole ==
  ASSUME WInv, [Next]_vars
  PROVE  Whole'
<1>1. CASE Load
  BY <1>1, UseWhole, ImportWhole, ReturnWhole DEF Load, Loads, Stays
<1>2. CASE Generate
  BY <1>2, GenerateWhole
<1>3. CASE Generated
  BY <1>3, GeneratedWhole
<1>4. CASE \E text \in Sources : Parse(text)
  BY <1>4, ParseWhole
<1>5. ASSUME Throw, Unwind, Grows
      PROVE  Whole'
  <2>1. /\ pc \notin {"shutdown", "ended"} /\ pc' = "shutdown" /\ results' = results
        /\ loading' = <<>> /\ UNCHANGED <<imports, used>>
    BY <1>5 DEF Throw, Catch, InTry, Unwind
  <2> QED BY <1>5, <2>1, NoResultYet, WholeLeft DEF WInv
<1>6. CASE LoadFails
  <2>1. Throw /\ Unwind /\ Grows
    BY <1>6, LearnGrows DEF LoadFails, LoadThrows, UseThrows, ImportThrows, FoundNowhere, FoundAt
  <2> QED BY <1>5, <2>1
<1>7. CASE Fails
  BY <1>5, <1>7 DEF Fails, Grows
<1>8. CASE \/ Mistake \/ Help \/ Version \/ NoInput \/ Overflow \/ Exit
           \/ \E signal \in {"ABRT", "SEGV", "TERM"} : UNCHANGED loaderVars /\ Ends(Killed(signal))
  <2>1. UNCHANGED <<loaderVars, results>> /\ pc' = "ended"
    BY <1>8 DEF Mistake, Help, Version, NoInput, Overflow, Exit, Ends
  <2> QED BY <2>1, WholeIdle DEF Early, Late
<1>9. CASE \/ Startup \/ TryBlock \/ MakeTarget \/ Verify \/ Execute \/ Run
           \/ \E library \in imports : LoadLibrary(library)
  <2>1. UNCHANGED <<loaderVars, results>> /\ (Early' => Early) /\ (Late' => Late)
        /\ pc' \notin {"generate", "visit"}
    BY <1>9 DEF Startup, TryBlock, MakeTarget, Verify, Execute, Run, LoadLibrary, Moves, Stays,
                Early, Late
  <2> QED BY <2>1, WholeIdle
<1>10. CASE \/ \E written \in BOOLEAN : Emit(written)
            \/ \E r \in Results : Return(r)
  <2>1. UNCHANGED loaderVars /\ Late /\ pc' = "shutdown"
    BY <1>10 DEF Emit, Return, Moves, Late
  <2> QED BY <2>1, WholeIdle DEF Early
<1>11. CASE BareName
  <2>1. Throw /\ loading = <<>> /\ UNCHANGED loaderVars
    BY <1>11 DEF BareName, WInv, FInv, IInv, Control, Directories
  <2>2. Unwind /\ Grows
    BY <2>1 DEF Unwind, Grows, loaderVars
  <2> QED BY <1>5, <2>1, <2>2
<1>12. CASE Segfault
  BY <1>5, <1>8, <1>12 DEF Segfault, SegfaultThrows, Grows
<1>13. CASE UNCHANGED vars
  BY <1>13, WholeIdle DEF vars, loaderVars, Early, Late
<1>14. CASE Asked
  BY <1>8, <1>13, <1>14 DEF Asked
<1> QED BY <1>1, <1>2, <1>3, <1>4, <1>6, <1>7, <1>8, <1>9, <1>10, <1>11, <1>12, <1>13, <1>14
        DEF Next, Main, Environment, Ended

LEMMA WholeRuns ==
  ASSUME WInv
  PROVE  RunsWithImports
<1> SUFFICES ASSUME pc = "running" \/ results # {}
             PROVE  /\ <<MainModule, MainFile>> \in used
                    /\ \A u \in used : \A s \in Says(u[2]) :
                         \/ s.op = "use" /\ \E v \in used : v[1] = s.name
                         \/ s.op = "import" /\ \E l \in loaded : l.name = s.name
                    /\ \A l \in loaded : \E u \in used :
                         [op |-> "import", name |-> l.name] \in Says(u[2])
  BY DEF RunsWithImports
<1>1. /\ \A u \in used : Complete(u[2], disk, used, imports)
      /\ <<MainModule, MainFile>> \in used /\ Justified
  BY DEF WInv, Whole
<1>2. loaded = imports
  BY DEF WInv, FInv, IInv, Control, Phases
<1>3. \A u \in used : \A s \in Says(u[2]) : Handled(s, used, imports)
  BY <1>1 DEF Complete, Says, Range
<1>4. \A l \in imports : \E u \in used : [op |-> "import", name |-> l.name] \in Says(u[2])
  BY <1>1 DEF Justified, Asks, Says, Range
<1> QED BY <1>1, <1>2, <1>3, <1>4 DEF Handled

\* A program that runs is all there: whatever its files use and import, through however
\* many modules, was found and loaded, and nothing else.
THEOREM ImportsLoaded == Spec => []RunsWithImports
<1>1. Init => WInv
  <2> SUFFICES ASSUME Init PROVE WInv
    OBVIOUS
  <2>1. FInv
    BY InitFiles
  <2>2. Whole
    BY DEF Init, LoaderInit, Whole, Justified
  <2> QED BY <2>1, <2>2 DEF WInv
<1>2. WInv /\ [Next]_vars => WInv'
  BY NextFiles, StepWhole DEF WInv
<1>3. WInv => RunsWithImports
  BY WholeRuns
<1> QED BY <1>1, <1>2, <1>3, PTL DEF Spec
=============================================================================
