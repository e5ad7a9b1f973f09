------------------------------ MODULE ShellLog ------------------------------
(***************************************************************************)
(* The command history of the shell (shell/src/log.c): a ring buffer in    *)
(* memory, written to the file .shell_log after every change and read back *)
(* on the first use in a session.                                          *)
(*                                                                         *)
(* save_log() truncates the file in fopen("w") and, stdio being buffered,  *)
(* writes all lines in fclose() (a log of less than 4096 bytes is          *)
(* assumed).  The shell may be killed in between, and fopen() may fail: the *)
(* commands since then are saved with the next one.  A file that exists    *)
(* can be read.  One session runs at a time: shells that run together      *)
(* rewrite the file from their own memory.                                 *)
(***************************************************************************)
EXTENDS Integers, Sequences

CONSTANTS
    Cmds,         \* command lines that do not begin with "log"
    NoCmd,        \* what an unused slot holds
    MaxEntries    \* MAX_LOG_ENTRIES

ASSUME ShellLogAssumption == MaxEntries \in Nat \ {0} /\ NoCmd \notin Cmds

VARIABLES
    pc,           \* off, idle, save (before fopen) or opened
    log_entries,
    log_count,
    log_start,
    log_loaded,
    file,         \* the lines of .shell_log
    recent,       \* history variable: the newest commands of the session
    kept          \* history variable: those of the last save

memVars     == <<log_entries, log_count, log_start, log_loaded>>
historyVars == <<pc, memVars, file, recent, kept>>

Index == 0 .. MaxEntries - 1
-----------------------------------------------------------------------------
(* The ring buffer                                                         *)

\* The ring as the session uses it: after load_log() if it has to load.
Ring ==
    IF log_loaded
      THEN [entries |-> log_entries, count |-> log_count, start |-> log_start]
      ELSE LET n == IF Len(file) < MaxEntries THEN Len(file) ELSE MaxEntries
           IN  [entries |-> [i \in Index |-> IF i < n THEN file[i + 1]
                                                      ELSE log_entries[i]],
                count |-> n, start |-> 0]

\* The entries of ring r, oldest first: what log prints.
Contents(r) == [i \in 1 .. r.count |-> r.entries[(r.start + i - 1) % MaxEntries]]

\* The same command as the one before it.
IsRepeated(r, c) ==
    /\ r.count > 0
    /\ r.entries[(r.start + r.count - 1) % MaxEntries] = c

\* Mutant: the oldest entry is overwritten but stays the oldest.
Insert_NoRotate(r, c) ==
    IF r.count < MaxEntries
      THEN [r EXCEPT !.entries[r.count] = c, !.count = @ + 1]
      ELSE [r EXCEPT !.entries[r.start] = c]

\* Adding to the ring buffer.
Insert(r, c) ==
    IF r.count < MaxEntries
      THEN [r EXCEPT !.entries[r.count] = c, !.count = @ + 1]
      ELSE [r EXCEPT !.entries[r.start] = c, !.start = (@ + 1) % MaxEntries]

SetRing(r) ==
    /\ log_entries' = r.entries
    /\ log_count'   = r.count
    /\ log_start'   = r.start
    /\ log_loaded'  = TRUE
-----------------------------------------------------------------------------
\* seq without its first element if it is longer than the log may be.
Newest(seq) == IF Len(seq) <= MaxEntries THEN seq ELSE Tail(seq)

\* A new session: the static variables are zero.
Start ==
    /\ pc = "off"
    /\ pc' = "idle"
    /\ log_entries' = [i \in Index |-> NoCmd]
    /\ log_count'   = 0
    /\ log_start'   = 0
    /\ log_loaded'  = FALSE
    /\ recent' = kept
    /\ UNCHANGED <<file, kept>>

\* log_add_command() up to save_log().
AddCommand(c) ==
    /\ pc = "idle"
    /\ IF IsRepeated(Ring, c)
         THEN SetRing(Ring) /\ UNCHANGED <<pc, recent>>
         ELSE /\ SetRing(Insert(Ring, c)) /\ pc' = "save"
              /\ recent' = Newest(Append(recent, c))
    /\ UNCHANGED <<file, kept>>

\* A line that begins with log and changes nothing: it is not recorded.
LogCommand ==
    /\ pc = "idle"
    /\ SetRing(Ring)
    /\ UNCHANGED <<pc, file, recent, kept>>

\* log purge, up to save_log().
Purge ==
    /\ pc = "idle"
    /\ SetRing([entries |-> Ring.entries, count |-> 0, start |-> 0])
    /\ pc' = "save"
    /\ recent' = <<>>
    /\ UNCHANGED <<file, kept>>

\* save_log(): fopen() truncates the file.
SaveOpen ==
    /\ pc = "save"
    /\ file' = <<>>
    /\ pc' = "opened"
    /\ UNCHANGED <<memVars, recent, kept>>

\* save_log(): fopen() fails, and the file stays as it is.
SaveFails ==
    /\ pc = "save"
    /\ pc' = "idle"
    /\ UNCHANGED <<memVars, file, recent, kept>>

\* Mutant: the slots are written in the order of the array.
Written_Unrotated(r) == [i \in 1 .. r.count |-> r.entries[i - 1]]

\* The lines that save_log() writes.
Written(r) == Contents(r)

\* save_log(): the lines are written.
SaveClose ==
    /\ pc = "opened"
    /\ file' = Written(Ring)
    /\ kept' = recent
    /\ pc' = "idle"
    /\ UNCHANGED <<memVars, recent>>

\* The user leaves the shell with Ctrl-D.
ExitShell ==
    /\ pc = "idle"
    /\ pc' = "off"
    /\ UNCHANGED <<memVars, file, recent, kept>>

\* The shell is killed.  What it was saving is gone, with all older commands.
Killed ==
    /\ pc # "off"
    /\ pc' = "off"
    /\ kept' = IF pc = "opened" THEN <<>> ELSE kept
    /\ UNCHANGED <<memVars, file, recent>>

HistoryInit ==
    /\ pc = "off"
    /\ log_entries = [i \in Index |-> NoCmd]
    /\ log_count = 0
    /\ log_start = 0
    /\ log_loaded = FALSE
    /\ file = <<>>
    /\ recent = <<>>
    /\ kept = <<>>

HistoryNext ==
    \/ Start \/ LogCommand \/ Purge \/ SaveOpen \/ SaveFails \/ SaveClose
    \/ ExitShell \/ Killed
    \/ \E c \in Cmds : AddCommand(c)

HistorySpec == HistoryInit /\ [][HistoryNext]_historyVars
-----------------------------------------------------------------------------
(* Properties                                                              *)

\* Types of all variables.
HistoryTypes ==
    /\ pc \in {"off", "idle", "save", "opened"}
    /\ log_entries \in [Index -> Cmds \union {NoCmd}]
    /\ log_count \in 0 .. MaxEntries
    /\ log_start \in Index
    /\ log_loaded \in BOOLEAN
    /\ file \in Seq(Cmds) /\ Len(file) <= MaxEntries
    /\ recent \in Seq(Cmds) /\ Len(recent) <= MaxEntries
    /\ kept \in Seq(Cmds) /\ Len(kept) <= MaxEntries

\* The oldest entry leaves slot 0 only when all slots are in use: strcpy()
\* into slot log_count relies on it.
RingShape == log_start # 0 => log_count = MaxEntries

\* log.c: "Don't add duplicate": the log never holds the same command twice
\* in a row, whatever was loaded, wrapped or purged before.
NoRepeats ==
    \A i \in 1 .. Ring.count - 1 : Contents(Ring)[i] # Contents(Ring)[i + 1]

\* "Commands persist across shell sessions": while nothing is being saved,
\* the file holds the newest commands in order, as they were at the last save.
Persistent == pc # "opened" => file = kept

\* "Shows last 15 commands": a session shows its newest commands, those of
\* earlier sessions among them, also when it has not loaded the file yet or
\* could not save them.
ShowsNewest == pc # "off" => Contents(Ring) = recent

\* The ring buffer is the history: in its shape, without repetitions, and with the newest
\* commands in order, after any number of adds, purges, saves, restarts and kills.
HistorySound == HistoryTypes /\ RingShape /\ NoRepeats /\ ShowsNewest
=============================================================================
