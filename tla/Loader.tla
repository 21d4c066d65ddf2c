-------------------------------- MODULE Loader --------------------------------
(***************************************************************************)
(* How the source files of a program are found and visited: visit( Tree& ),*)
(* visit( StmtUse& ) and visit( StmtImport& ) of exo::jit::Codegen and     *)
(* Tree::Parse.  Of a source file only its `use' and `import' statements   *)
(* are known; the rest of its visit is Codegen, Expressions and Classes.   *)
(*                                                                         *)
(* Neither the files there are nor what they say is given in advance:      *)
(* `disk' holds what was found out when a file was looked for first.       *)
(***************************************************************************)
EXTENDS Naturals, Sequences, FiniteSets

CONSTANTS
  Modules, Libraries,         \* names, with the directories of their namespaces
  MainModule,                 \* the name of the input file without its directory
  Start, Home,                \* the directories exo is started in and of the input file
  IncludePaths, LibraryPaths, \* directories, in the order they are searched
  Relative,                   \* the directories that are not absolute
  MaxStatements,              \* bound: uses and imports of a file
  MaxDepth                    \* bound: nested uses the process's stack has room for

ASSUME LoaderAssumption ==
  /\ MainModule \in Modules /\ IsFiniteSet(Modules)
  /\ {Start, Home} \cap Relative = {}
  /\ IncludePaths \in Seq({IncludePaths[i] : i \in DOMAIN IncludePaths})
  /\ LibraryPaths \in Seq({LibraryPaths[i] : i \in DOMAIN LibraryPaths})
  /\ MaxStatements \in Nat
  /\ MaxDepth \in Nat /\ MaxDepth > Cardinality(Modules)

VARIABLES
  cwd,      \* the process's current directory
  disk,     \* of the files looked for: whether they are there, and what they say
  loading,  \* the files being visited, the innermost last
  imports,  \* Codegen::imports
  used      \* which file each use was resolved to (a ghost)

loaderVars == <<cwd, disk, loading, imports, used>>

-----------------------------------------------------------------------------
(* Files.                                                                  *)

File(dir, name) == [dir |-> dir, name |-> name]

\* The input file is opened before the current directory changes.
MainFile == File(<<Home>>, MainModule)

Statement == [op : {"use"}, name : Modules] \cup [op : {"import"}, name : Libraries]

Absent       == [there |-> FALSE, parses |-> FALSE, stmts |-> <<>>]
Broken       == [there |-> TRUE, parses |-> FALSE, stmts |-> <<>>]
Source(s)    == [there |-> TRUE, parses |-> TRUE, stmts |-> s]
Sources      == {Source(s) : s \in UNION {[1 .. n -> Statement] : n \in 0 .. MaxStatements}}

\* The directory a path names now.
Directory(path) == IF path \in Relative THEN Append(cwd, path) ELSE <<path>>

InPaths(paths, name) == [i \in DOMAIN paths |-> File(Directory(paths[i]), name)]

\* The current directory goes before the include paths, and after the library paths.
ModulePlaces(name)  == <<File(cwd, name)>> \o InPaths(IncludePaths, name)
LibraryPlaces(name) == Append(InPaths(LibraryPaths, name), File(cwd, name))

\* What is looked for is as it was before.
MayBe(file, text) == file \in DOMAIN disk => disk[file] = text

Learn(files, text) ==
  disk' = [f \in DOMAIN disk \cup files |-> IF f \in DOMAIN disk THEN disk[f] ELSE text[f]]

\* The first of the places where a file exists is the i-th, and text is in it.
FoundAt(places, i, text) ==
  /\ \A j \in 1 .. i - 1 : MayBe(places[j], Absent)
  /\ MayBe(places[i], text)
  /\ Learn({places[j] : j \in 1 .. i},
           [f \in {places[j] : j \in 1 .. i} |-> IF f = places[i] THEN text ELSE Absent])

\* canonical() of a path that does not exist
FoundNowhere(places) ==
  /\ \A j \in DOMAIN places : MayBe(places[j], Absent)
  /\ Learn({places[j] : j \in DOMAIN places}, [f \in {places[j] : j \in DOMAIN places} |-> Absent])

-----------------------------------------------------------------------------
(* Visits.                                                                 *)

Visit(file) == [file |-> file, done |-> 0]
Innermost   == loading[Len(loading)]
Finished    == Innermost.done = Len(disk[Innermost.file].stmts)

\* The statement s is the next one.
At(s) ==
  /\ loading # <<>> /\ ~Finished
  /\ s = disk[Innermost.file].stmts[Innermost.done + 1]

\* A list that was not advanced in.
PassedNot == loading

Passed == [loading EXCEPT ![Len(loading)].done = @ + 1]

\* The input file is parsed as text.
ParseMain(text) ==
  /\ MayBe(MainFile, text) /\ text.parses
  /\ Learn({MainFile}, [f \in {MainFile} |-> text])
  /\ used' = {<<MainModule, MainFile>>}
  /\ UNCHANGED <<cwd, loading, imports>>

\* The current directory is the input file's while it is visited.
OpenTree ==
  /\ cwd' = <<Home>>
  /\ loading' = <<Visit(MainFile)>>
  /\ UNCHANGED <<disk, imports, used>>

\* A visit that left the current directory where it was changed to.
CloseTreeStaying ==
  /\ Len(loading) = 1 /\ Finished
  /\ loading' = <<>>
  /\ UNCHANGED <<cwd, disk, imports, used>>

CloseTree ==
  /\ Len(loading) = 1 /\ Finished
  /\ loading' = <<>>
  /\ cwd' = <<Start>>
  /\ UNCHANGED <<disk, imports, used>>

\* The place where a visit to the module's own directory would look next.
EnterDirectory(file) == cwd' = file.dir

\* The statements of a module are visited, not its tree: the directory stays.
Enter(file) == UNCHANGED cwd

OpenUse(name, i, text) ==
  LET file == ModulePlaces(name)[i]
  IN  /\ At([op |-> "use", name |-> name])
      /\ Len(loading) < MaxDepth
      /\ FoundAt(ModulePlaces(name), i, text)
      /\ text.parses
      /\ loading' = Append(Passed, Visit(file))
      /\ used' = used \cup {<<name, file>>}
      /\ Enter(file)
      /\ UNCHANGED imports

CloseUse ==
  /\ Len(loading) > 1 /\ Finished
  /\ loading' = SubSeq(loading, 1, Len(loading) - 1)
  /\ UNCHANGED <<cwd, disk, imports, used>>

\* Nothing remembers what was used: a module that uses itself is visited again.
NoRoom(name) ==
  /\ At([op |-> "use", name |-> name])
  /\ Len(loading) = MaxDepth

\* Only the imports of the input file itself.
RememberedOutermost(library) == IF Len(loading) = 1 THEN imports \cup {library} ELSE imports

\* One set for all modules: an import in any of them counts.
Remembered(library) == imports \cup {library}

Import(name, i) ==
  /\ At([op |-> "import", name |-> name])
  /\ FoundAt(LibraryPlaces(name), i, Source(<<>>))
  /\ imports' = Remembered(LibraryPlaces(name)[i])
  /\ loading' = Passed
  /\ UNCHANGED <<cwd, used>>

\* What remains of a visit that an exception has left.
Unwind == loading' = <<>> /\ UNCHANGED <<cwd, imports, used>>

\* UnknownModule, NotFound, and what the parser throws
UseThrows(name) ==
  /\ At([op |-> "use", name |-> name])
  /\ \/ FoundNowhere(ModulePlaces(name))
     \/ \E i \in DOMAIN ModulePlaces(name) : FoundAt(ModulePlaces(name), i, Broken)
  /\ Unwind

ImportThrows(name) ==
  /\ At([op |-> "import", name |-> name])
  /\ FoundNowhere(LibraryPlaces(name))
  /\ Unwind

-----------------------------------------------------------------------------

LoaderInit ==
  /\ cwd = <<Start>>
  /\ disk = [f \in {} |-> Absent]
  /\ loading = <<>>
  /\ imports = {}
  /\ used = {}

Loads ==
  \/ \E name \in Modules :
       \E i \in DOMAIN ModulePlaces(name), text \in Sources : OpenUse(name, i, text)
  \/ CloseUse
  \/ \E name \in Libraries : \E i \in DOMAIN LibraryPlaces(name) : Import(name, i)

LoadThrows ==
  \/ \E name \in Modules : UseThrows(name)
  \/ \E name \in Libraries : ImportThrows(name)
=============================================================================
