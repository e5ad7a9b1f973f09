------------------------------ MODULE ShellLine -----------------------------
(***************************************************************************)
(* A command line of the shell: parse_input() (shell/src/parser.c), which  *)
(* decides whether the line is valid, and execute_full_command(),          *)
(* execute_pipeline() and parse_command() (executor.c), which take it      *)
(* apart again on their own to run it.                                     *)
(*                                                                         *)
(* A character is a name character "n", a blank " " or one of the special  *)
(* ones.  A position past the end stands for the '\0'; 0 for NULL.  A name *)
(* is the pair of its first position and the one after it.                 *)
(***************************************************************************)
EXTENDS Integers, Sequences

LOCAL INSTANCE SequencesExt
LOCAL INSTANCE FiniteSetsExt

CONSTANT MaxLine        \* bound on the length of the line

VARIABLE line

Special   == {"|", "&", ">", "<", ";"}
LineChars == {"n", " "} \union Special

\* The line is typed.
LineInit == line = <<>>
LineNext ==
    /\ Len(line) < MaxLine
    /\ \E c \in LineChars : line' = Append(line, c)
LineSpec == LineInit /\ [][LineNext]_line
-----------------------------------------------------------------------------
(* parser.c                                                                *)

End   == Len(line) + 1
At(i) == IF i < End THEN line[i] ELSE "end"

\* The first position from i on whose character is not in S.
Past(i, S) == Min({j \in i .. End : At(j) \notin S})

\* skip_whitespace()
Skip(i) == Past(i, {" "})

\* parse_name(): where the name at i ends, 0 if there is none.
ParseName(i) == IF At(i) = "n" THEN Past(i, {"n"}) ELSE 0

\* parse_input_redir() and parse_output_redir().
ParseRedir(i) ==
    IF At(i) = ">" /\ At(i + 1) = ">" THEN ParseName(Skip(i + 2))
    ELSE IF At(i) \in {"<", ">"} THEN ParseName(Skip(i + 1))
    ELSE 0

\* parse_atomic(): a name, then the loop over names and redirections.
ParseAtomic(start) ==
    LET Loop[i \in 0 .. End] ==
            LET j == Skip(i)
                next == IF At(j) = "n" THEN ParseName(j) ELSE ParseRedir(j)
            IN  IF i = 0 THEN 0
                ELSE IF At(j) \in {"end", "|", "&", ";"} THEN j
                ELSE Loop[next]
    IN  Loop[ParseName(Skip(start))]

\* parse_cmd_group()
ParseGroup(start) ==
    LET Loop[i \in 0 .. End] ==
            LET j == Skip(i)
            IN  IF i = 0 THEN 0
                ELSE IF At(j) # "|" THEN j
                ELSE Loop[ParseAtomic(Skip(j + 1))]
    IN  Loop[ParseAtomic(start)]

\* parse_input()
ParseInput ==
    LET Loop[i \in 0 .. End] ==
            LET j == Skip(i)
                k == Skip(j + 1)
            IN  CASE i = 0 -> FALSE
                  [] i > 0 /\ At(j) = "end" -> TRUE
                  [] i > 0 /\ At(j) = "&" -> At(k) = "end" \/ Loop[ParseGroup(k)]
                  [] i > 0 /\ At(j) = ";" -> Loop[ParseGroup(k)]
                  [] OTHER -> FALSE
    IN  At(Skip(1)) = "end" \/ Loop[ParseGroup(Skip(1))]
-----------------------------------------------------------------------------
(* executor.c                                                              *)

\* Positions from i to before j, without the blanks at the end.
Trim(i, j) == Max({i} \union {k + 1 : k \in {m \in i .. j - 1 : At(m) # " "}})

\* Mutant: the rest of the line is a group, also when it is blank.
Groups_Rest ==
    LET Loop[i \in 1 .. End] ==
            LET sep  == Past(i, LineChars \ {"&", ";"})
                here == <<[from |-> i, to |-> Trim(i, sep), background |-> At(sep) = "&"]>>
            IN  IF At(sep) = "end" THEN here ELSE here \o Loop[Skip(sep + 1)]
    IN  Loop[1]

\* The loop of execute_full_command(): the groups between ; and &, if not empty.
Groups ==
    LET Loop[i \in 1 .. End] ==
            LET sep  == Past(i, LineChars \ {"&", ";"})
                to   == Trim(i, sep)
                here == IF to = i THEN <<>>
                        ELSE <<[from |-> i, to |-> to, background |-> At(sep) = "&"]>>
            IN  IF At(sep) = "end" THEN here ELSE here \o Loop[Skip(sep + 1)]
    IN  Loop[1]

\* parse_command() of positions i to before end: arguments, last input and output
\* file, and whether to append, which a > does not take back.
ParseCommand(start, end) ==
    LET WordEnd(i) == Min({end} \union {j \in i .. end : At(j) \in {" ", "<", ">"}})
        Loop[i \in 1 .. end] ==
            LET j    == Min({end} \union {k \in i .. end : At(k) # " "})
                app  == At(j) = ">" /\ j + 1 < end /\ At(j + 1) = ">"
                k    == IF app THEN j + 2 ELSE j + 1
                name == Min({end} \union {m \in k .. end : At(m) # " "})
                word == <<name, WordEnd(name)>>
                rest == Loop[IF At(j) \in {"<", ">"} THEN word[2] ELSE WordEnd(j)]
            IN  IF j >= end
                THEN [args |-> <<>>, in |-> <<>>, out |-> <<>>, append |-> FALSE]
                ELSE IF At(j) = "<"
                THEN [rest EXCEPT !.in = IF @ = <<>> THEN word ELSE @]
                ELSE IF At(j) = ">"
                THEN [rest EXCEPT !.out = IF @ = <<>> THEN word ELSE @, !.append = @ \/ app]
                ELSE [rest EXCEPT !.args = <<<<j, WordEnd(j)>>>> \o @]
    IN  Loop[start]

\* execute_pipeline() opens the input file of the first command and the output file of
\* the last one; others are ignored.
Redirected(c, first, last) ==
    [args |-> c.args, in |-> IF first THEN c.in ELSE <<>>,
     out |-> IF last THEN c.out ELSE <<>>, append |-> last /\ c.append]

\* execute_pipeline(): the commands between pipes.
Pipeline(g) ==
    LET Loop[i \in 1 .. g.to + 1] ==
            LET bar  == Min({g.to} \union {j \in i .. g.to : At(j) = "|"})
                here == <<Redirected(ParseCommand(i, bar), i = g.from, bar = g.to)>>
            IN  IF bar = g.to THEN here ELSE here \o Loop[bar + 1]
    IN  [background |-> g.background, commands |-> Loop[g.from]]

\* What execute_full_command() runs.
Executed == [i \in 1 .. Len(Groups) |-> Pipeline(Groups[i])]
-----------------------------------------------------------------------------
(* Properties: the same by tokens                                          *)

\* Where tokens begin, in order: names as long as they are, >> before >.
TokenStarts ==
    {i \in 1 .. Len(line) :
        CASE line[i] = " " -> FALSE
          [] line[i] = "n" -> i = 1 \/ line[i - 1] # "n"
          [] line[i] = ">" -> LET m == Max({0} \union {j \in 1 .. i : line[j] # ">"})
                              IN  (i - m) % 2 = 1
          [] OTHER -> TRUE}

Token(i) ==
    IF line[i] = ">" /\ At(i + 1) = ">" THEN ">>" ELSE line[i]
After(i) ==         \* the next token, or "end"
    LET later == {j \in TokenStarts : j > i}
    IN  IF later = {} THEN "end" ELSE Token(Min(later))
Before(i) ==        \* the one before it
    LET earlier == {j \in TokenStarts : j < i}
    IN  IF earlier = {} THEN "begin" ELSE Token(Max(earlier))

\* A name comes first and after everything but a name or an & with one of these tokens
\* behind it.
NamesFollow(afterAmp) ==
    TokenStarts # {} =>
        /\ Token(Min(TokenStarts)) = "n"
        /\ \A i \in TokenStarts :
            /\ Token(i) \in Special \union {">>"} =>
                After(i) = "n" \/ (Token(i) = "&" /\ After(i) \in afterAmp)

\* The grammar of parser.c's comments: cmd_group ((& | ;) cmd_group)* &?, where cmd_group
\* is atomic (\| atomic)* and atomic is name (name | < name | > name | >> name)*.
IsValid == NamesFollow({"end"})

\* The lines that TEST_COMMANDS.txt runs: between groups there may also be "& ;", as in
\* "echo first ; sleep 2 & ; echo third".  parse_input() refuses those: it wants a
\* command after the &.
IsListed == NamesFollow({"end", ";"})

\* parse_input() accepts all lines of the grammar in its comments, and only lines that
\* TEST_COMMANDS.txt would run, whatever the blanks.
ParsesGrammar == (IsValid => ParseInput) /\ (ParseInput => IsListed)

Name(i) == <<i, ParseName(i)>>
Names(S) == SetToSortSeq(S, <)

\* The command of the tokens in positions i to before j.
Command(i, j) ==
    LET T     == {k \in TokenStarts : i <= k /\ k < j}
        names == {k \in T : Token(k) = "n"}
        Files(ops) == {k \in names : Before(k) \in ops}
        LastOf(S)   == IF S = {} THEN <<>> ELSE Name(Max(S))
        args  == Names(names \ Files({"<", ">", ">>"}))
    IN  [args   |-> [k \in 1 .. Len(args) |-> Name(args[k])],
         in     |-> LastOf(Files({"<"})),
         out    |-> LastOf(Files({">", ">>"})),
         append |-> LET ops == {k \in T : Token(k) \in {">", ">>"}}
                    IN  ops # {} /\ Token(Max(ops)) = ">>"]

\* The parts of positions i to before j between separators.
Cuts(i, j, S) == Names({k \in TokenStarts : i <= k /\ k < j /\ Token(k) \in S})
Part(i, j, cuts, n) ==
    <<IF n = 1 THEN i ELSE cuts[n - 1] + 1, IF n > Len(cuts) THEN j ELSE cuts[n]>>

\* What a line means: its groups, which run in the background when an & follows, and
\* their commands.
Meaning ==
    LET cuts   == Cuts(1, End, {"&", ";"})
        groups == IF Len(cuts) > 0 /\ After(cuts[Len(cuts)]) = "end" THEN Len(cuts)
                  ELSE Len(cuts) + 1
    IN  [n \in 1 .. groups |->
            LET g    == Part(1, End, cuts, n)
                bars == Cuts(g[1], g[2], {"|"})
            IN  [background |-> n <= Len(cuts) /\ Token(cuts[n]) = "&",
                 commands   |-> [m \in 1 .. Len(bars) + 1 |->
                    LET c == Part(g[1], g[2], bars, m) IN Command(c[1], c[2])]]]

\* Group g runs as group m says, but for the files of commands inside a pipeline: a >>
\* appends if it comes last, and there is no appending without one.
RunsAs(g, m) ==
    /\ g.background = m.background
    /\ Len(g.commands) = Len(m.commands)
    /\ \A k \in 1 .. Len(m.commands) : g.commands[k].args = m.commands[k].args
    /\ g.commands[1].in = m.commands[1].in
    /\ LET run   == g.commands[Len(g.commands)]
           meant == m.commands[Len(m.commands)]
       IN  /\ run.out = meant.out
           /\ meant.append => run.append
           /\ run.append => \E i \in TokenStarts : Token(i) = ">>"

\* The executor, which looks at the characters again, runs what the parser accepted:
\* the same groups and pipelines with the same arguments, and with the files at their
\* ends.
RunsWhatWasParsed ==
    ParseInput /\ TokenStarts # {} =>
        /\ Len(Executed) = Len(Meaning)
        /\ \A n \in 1 .. Len(Meaning) : RunsAs(Executed[n], Meaning[n])

\* All lines of the grammar are accepted, and what is accepted is run as it was parsed.
LineUnderstood == ParsesGrammar /\ RunsWhatWasParsed
-----------------------------------------------------------------------------
(* What the documentation says and the code does not do                    *)

\* README.md: "command > output_file    # Overwrite".  parse_command() does not take
\* back an earlier >>.
OverwritesFile ==
    ParseInput /\ TokenStarts # {} =>
        \A n \in 1 .. Len(Meaning) :
            LET run   == Last(Executed[n].commands)
                meant == Last(Meaning[n].commands)
            IN  run.out # <<>> /\ ~meant.append => ~run.append
=============================================================================
