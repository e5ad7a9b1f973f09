------------------------------ MODULE ShellDirs -----------------------------
(***************************************************************************)
(* The directories of the shell: hop (shell/src/hop.c) and reveal          *)
(* (shell/src/reveal.c), while other programs make and remove directories. *)
(*                                                                         *)
(* A directory is named by its absolute path.  A removed directory stays   *)
(* the working directory of who is in it: getcwd() fails there and names   *)
(* lead nowhere, but ".." still leads to its parent.  Directories are      *)
(* readable and there are no symbolic links.                               *)
(***************************************************************************)
EXTENDS Integers, Sequences, FiniteSets

CONSTANTS
    Paths,        \* all directories there may be
    ParentOf,     \* [Paths -> Paths], the root is its own parent
    HomeDir,      \* home_dir, where the shell was started
    NoDir,        \* the empty string in prev_dir
    Named,        \* directories given by path or by name
    MaxArgs       \* bound on the arguments of a command

\* The way from d to the root: what is in every set that has d and all parents.
Way(d) ==
    {x \in Paths : \A S \in SUBSET Paths :
        d \in S /\ (\A y \in S : ParentOf[y] \in S) => x \in S}

ASSUME ShellDirsAssumption ==
    /\ ParentOf \in [Paths -> Paths]
    /\ \A d \in Paths : ParentOf[d] = d \/ d \notin Way(ParentOf[d])     \* it is a tree
    /\ HomeDir \in Paths /\ Named \subseteq Paths /\ NoDir \notin Paths
    /\ MaxArgs \in Nat

VARIABLES
    exist,        \* the directories there are
    cwd,          \* the working directory
    dead,         \* removed directories on the way from cwd to the root
    prev_dir,
    todo,         \* hop's arguments still to do, <<>> while the shell waits
    old_dir,      \* hop's old_dir between getcwd() and chdir(), or NoDir
    left,         \* history variable: where the last change of directory began
    bare,         \* history variable: it was a hop without arguments
    shown         \* history variable: the last reveal and a hop right after it

dirVars == <<exist, cwd, dead, prev_dir, todo, old_dir, left, bare, shown>>

DirArgs ==
    {[kind |-> k, dir |-> NoDir] : k \in {"~", ".", "..", "-"}}
    \union {[kind |-> k, dir |-> d] : k \in {"path", "name"}, d \in Named}

Flags == {"-a", "-l", "-x"}     \* -x stands for the ones that do not exist

NothingShown == [arg |-> [kind |-> "none", dir |-> NoDir], dir |-> NoDir, hop |-> "no"]
-----------------------------------------------------------------------------
(* The system calls                                                        *)

\* The directory that path target leads to from cwd, or NoDir.
Lookup(a) ==
    CASE a.kind = ".." -> ParentOf[cwd]
      [] a.kind = "name" ->
            IF ParentOf[a.dir] = cwd /\ cwd \notin dead /\ a.dir \in exist
              THEN a.dir ELSE NoDir
      [] OTHER -> IF a.dir \in exist THEN a.dir ELSE NoDir

\* chdir() to the directory that a leads to.
Chdir(a) ==
    /\ cwd' = Lookup(a)
    /\ dead' = IF a.kind = ".." THEN dead \ {cwd} ELSE {}
-----------------------------------------------------------------------------
(* hop                                                                     *)

Path(d) == [kind |-> "path", dir |-> d]

\* The target of an argument: home_dir and prev_dir are paths.
HopTarget(a) ==
    CASE a.kind = "~" -> Path(HomeDir)
      [] a.kind = "-" -> Path(prev_dir)
      [] OTHER -> a

\* hop without arguments: prev_dir becomes the new directory.
HopHome ==
    /\ todo = <<>>
    /\ HomeDir \in exist
    /\ Chdir(Path(HomeDir))
    /\ prev_dir' = HomeDir
    /\ left' = cwd
    /\ bare' = TRUE
    /\ shown' = NothingShown
    /\ UNCHANGED <<exist, todo, old_dir>>

HopStart(args) ==
    /\ todo = <<>>
    /\ todo' = args
    /\ shown' = IF args = <<shown.arg>> /\ shown.hop = "no" THEN shown ELSE NothingShown
    /\ UNCHANGED <<exist, cwd, dead, prev_dir, old_dir, left, bare>>

Outcome(o) == IF shown = NothingShown THEN shown ELSE [shown EXCEPT !.hop = o]

\* "." and, without a previous directory, "-" are skipped.
Skipped(a) == a.kind = "." \/ (a.kind = "-" /\ prev_dir = NoDir)

HopSkip ==
    /\ todo # <<>> /\ old_dir = NoDir
    /\ Skipped(todo[1])
    /\ todo' = Tail(todo)
    /\ shown' = Outcome("ok")
    /\ UNCHANGED <<exist, cwd, dead, prev_dir, old_dir, left, bare>>

\* getcwd(): hop gives up in a removed directory.
HopLook ==
    /\ todo # <<>> /\ old_dir = NoDir
    /\ ~Skipped(todo[1])
    /\ IF cwd \in dead
         THEN todo' = <<>> /\ shown' = NothingShown /\ UNCHANGED old_dir
         ELSE old_dir' = cwd /\ UNCHANGED <<todo, shown>>
    /\ UNCHANGED <<exist, cwd, dead, prev_dir, left, bare>>

\* Mutant: prev_dir is set before chdir().
PrevAfter_Always(ok) == old_dir

\* prev_dir changes only if chdir() succeeds.
PrevAfter(ok) == IF ok THEN old_dir ELSE prev_dir

\* chdir(): the arguments after one that fails are not done.
HopChange ==
    LET target == HopTarget(todo[1])
        ok     == Lookup(target) # NoDir
    IN  /\ old_dir # NoDir
        /\ prev_dir' = PrevAfter(ok)
        /\ old_dir' = NoDir
        /\ IF ok
             THEN Chdir(target) /\ todo' = Tail(todo) /\ left' = cwd /\ bare' = FALSE
             ELSE todo' = <<>> /\ UNCHANGED <<cwd, dead, left, bare>>
        /\ shown' = Outcome(IF ok THEN "ok" ELSE "failed")
        /\ UNCHANGED exist
-----------------------------------------------------------------------------
(* reveal                                                                  *)

\* The target of an argument: "." is the path getcwd() returns, if it does, and "-" an
\* error without a previous directory.
RevealTarget(a) ==
    CASE a.kind = "~" -> Path(HomeDir)
      [] a.kind = "." -> Path(IF cwd \in dead THEN NoDir ELSE cwd)
      [] a.kind = "-" -> Path(prev_dir)
      [] OTHER -> a

\* reveal: a flag that is not known or a second directory is an error.  Flags change how
\* much of the directory is printed, not which one it is.
Reveal(flags, args) ==
    /\ todo = <<>>
    /\ LET a == IF args = <<>> THEN [kind |-> ".", dir |-> NoDir] ELSE args[1]
       IN  shown' = IF "-x" \in flags \/ Len(args) > 1 THEN NothingShown
                    ELSE [arg |-> a, dir |-> Lookup(RevealTarget(a)), hop |-> "no"]
    /\ UNCHANGED <<exist, cwd, dead, prev_dir, todo, old_dir, left, bare>>
-----------------------------------------------------------------------------
(* Other programs                                                          *)

Mkdir(d) ==
    /\ d \notin exist /\ ParentOf[d] \in exist
    /\ exist' = exist \union {d}
    /\ shown' = NothingShown
    /\ UNCHANGED <<cwd, dead, prev_dir, todo, old_dir, left, bare>>

Rmdir(d) ==
    /\ d \in exist /\ ParentOf[d] # d
    /\ \A c \in exist : ParentOf[c] = d => c = d
    /\ exist' = exist \ {d}
    /\ dead' = dead \union ({d} \intersect Way(cwd))
    /\ shown' = NothingShown
    /\ UNCHANGED <<cwd, prev_dir, todo, old_dir, left, bare>>

DirsInit ==
    /\ exist = Paths
    /\ cwd = HomeDir
    /\ dead = {}
    /\ prev_dir = NoDir
    /\ todo = <<>>
    /\ old_dir = NoDir
    /\ left = NoDir
    /\ bare = FALSE
    /\ shown = NothingShown

DirsNext ==
    \/ HopHome \/ HopSkip \/ HopLook \/ HopChange
    \/ \E n \in 1 .. MaxArgs : \E args \in [1 .. n -> DirArgs] : HopStart(args)
    \/ \E flags \in SUBSET Flags : \E n \in 0 .. MaxArgs :
            \E args \in [1 .. n -> DirArgs] : Reveal(flags, args)
    \/ \E d \in Paths : Mkdir(d) \/ Rmdir(d)

DirsSpec == DirsInit /\ [][DirsNext]_dirVars
-----------------------------------------------------------------------------
(* Properties                                                              *)

\* "Save current directory before changing": unless the last change of directory was a
\* hop without arguments (see HopGoesBack), prev_dir is where it began, whatever
\* arguments failed and whatever was removed since.
PrevIsLeft == ~bare => prev_dir = left

\* hop x leads to the directory that reveal x has just listed, and fails when reveal
\* found none; but where reveal fails, hop - without a previous directory and hop . in
\* a removed one do nothing.
RevealShowsHop ==
    /\ todo = <<>> /\ shown # NothingShown
    /\ ~(shown.arg.kind = "-" /\ prev_dir = NoDir) /\ ~(shown.arg.kind = "." /\ cwd \in dead)
    =>
        /\ shown.hop = "ok" => cwd = shown.dir
        /\ shown.hop = "failed" => shown.dir = NoDir

\* hop - leads back to where a hop with arguments began, and reveal shows where hop leads.
DirsSound == PrevIsLeft /\ RevealShowsHop
-----------------------------------------------------------------------------
(* What the documentation says and the code does not do                    *)

\* README.md: "hop -  Go to previous directory".  After a hop without arguments it stays
\* where that led: cmd_hop() then takes the new directory for the previous one.
HopGoesBack == prev_dir = left
=============================================================================
