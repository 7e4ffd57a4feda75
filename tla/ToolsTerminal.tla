---------------------------- MODULE ToolsTerminal ----------------------------
(***************************************************************************)
(* A tools terminal of the page (public/app.js): the lines it shows, the   *)
(* line that is typed, the commands given before, which the arrow keys     *)
(* bring back, the Tab key, which completes what is typed from a table of  *)
(* commands and their subcommands, and the command that is waited for,     *)
(* while nothing can be typed.  The terminal of a collector has two buttons*)
(* beside it: the one that sets an agent up ends the waiting, and both add *)
(* lines of their own.                                                     *)
(*                                                                         *)
(* A text is its words, with or without a space at the end; a word is its  *)
(* letters.  A subcommand in angle brackets stands for something the user  *)
(* makes up.                                                               *)
(***************************************************************************)
EXTENDS Naturals, Sequences, SequencesExt, FiniteSets

CONSTANTS
  Texts,       \* what somebody types
  Help,        \* the text that stands in a new terminal
  Clearing,    \* "clear" or "cls"
  Commands,    \* the words of the first level
  Subs,        \* the subcommands of each
  Holders,     \* the ones in angle brackets
  Letters,     \* bound: of the texts that are completed
  MaxWord,     \*   letters of their words
  MaxLines,    \* COLLECTOR_TOOLS_MAX_LINES
  MaxHistory,  \* COLLECTOR_TOOLS_MAX_HISTORY
  Collector,   \* whether it is the terminal of a collector
  MaxCommands  \* bound: commands and buttons

VARIABLES
  lines,    \* shown: [kind, of], of the number of a command
  input,    \* the line that is typed
  pending,
  history, cursor, draft,
  waiting,  \* commands sent and not answered
  given,    \* history: commands and buttons so far
  typed,    \* history: what stood at the end of the list of commands last
  entered   \* history: the commands given

terminalVars == <<lines, input, pending, history, cursor, draft, waiting, given, typed, entered>>

Nothing == [words |-> <<>>, space |-> FALSE]

-------------------------------------------------------------------------------
(* Completion. *)

Concrete(c) == IF c \in Commands THEN Subs[c] \ Holders ELSE {}
Starting(words, prefix) == {w \in words : IsPrefix(prefix, w)}

Common(words) == LongestCommonPrefix(words)
One(words) == CHOOSE w \in words : TRUE

(* The only command there is, with a space when there is more to complete; *)
(* of several what they have in common.                                    *)
CompleteCommand(t, word) ==
  LET options == Starting(Commands, word)
  IN IF options = {} THEN t
     ELSE IF Cardinality(options) = 1
          THEN [words |-> <<One(options)>>, space |-> Concrete(One(options)) # {}]
          ELSE [words |-> <<Common(options)>>, space |-> FALSE]

(* After a space every subcommand is an option, and what was typed before  *)
(* it is no part of the answer.                                            *)
CompleteSub(t) ==
  LET second == IF t.space THEN <<>> ELSE t.words[2]
      options == IF ~t.space /\ Len(t.words) > 2 THEN {} ELSE Starting(Concrete(t.words[1]), second)
  IN IF options = {} \/ (Cardinality(options) > 1 /\ Common(options) = second) THEN t
     ELSE [words |-> <<t.words[1], Common(options)>>, space |-> FALSE]

(* completeToolsTerminalInput *)
Completed(t) == IF t.words = <<>> THEN t
                ELSE IF Len(t.words) = 1 /\ ~t.space THEN CompleteCommand(t, t.words[1])
                ELSE CompleteSub(t)

(* listToolsTerminalCompletions *)
Listed(t) ==
  IF t.words = <<>> THEN {<<c>> : c \in Commands}
  ELSE LET c == t.words[1]
           subs == IF c \in Commands THEN Subs[c] ELSE {}
       IN IF Len(t.words) = 1 THEN IF subs # {} THEN {<<c, s>> : s \in subs}
                                   ELSE {<<d>> : d \in Starting(Commands, c)}
          ELSE {<<c, s>> : s \in {u \in subs : Len(t.words) = 2 /\ u \notin Holders /\ IsPrefix(t.words[2], u)}}

-------------------------------------------------------------------------------
(* Lines and the list of commands. *)

(* trimCollectorToolsLines *)
Trim(rows) == IF Len(rows) > MaxLines THEN SubSeq(rows, Len(rows) - MaxLines + 1, Len(rows)) ELSE rows
Shown(kind, n) == lines' = Trim(Append(lines, [kind |-> kind, of |-> n]))

(* pushCollectorToolsTerminalHistory: a repetition is left out. *)
Remembered(command) ==
  LET all == IF history # <<>> /\ Last(history) = command THEN history ELSE Append(history, command)
  IN IF Len(all) > MaxHistory THEN Tail(all) ELSE all

Init == /\ lines = <<[kind |-> "welcome", of |-> 0]>> /\ input = Help /\ pending = FALSE
        /\ history = <<>> /\ cursor = 0 /\ draft = Nothing
        /\ waiting = {} /\ given = 0 /\ typed = Help /\ entered = <<>>

-------------------------------------------------------------------------------
(* The keys.  The field is disabled while a command is waited for. *)
Type(t) == /\ ~pending
           /\ input' = t /\ cursor' = Len(history) /\ draft' = t /\ typed' = t
           /\ UNCHANGED <<lines, pending, history, waiting, given, entered>>
(* It leaves the place in the list as it is. *)
Tab == /\ ~pending /\ input' = Completed(input)
       /\ typed' = IF cursor = Len(history) THEN input' ELSE typed
       /\ UNCHANGED <<lines, pending, history, cursor, draft, waiting, given, entered>>
(* navigateCollectorToolsTerminalHistory *)
Up == /\ ~pending /\ cursor > 0
      /\ draft' = IF cursor = Len(history) THEN input ELSE draft
      /\ cursor' = cursor - 1 /\ input' = history[cursor' + 1]
      /\ UNCHANGED <<lines, pending, history, waiting, given, typed, entered>>
Down == /\ ~pending /\ cursor < Len(history)
        /\ cursor' = cursor + 1
        /\ input' = IF cursor' = Len(history) THEN draft ELSE history[cursor' + 1]
        /\ UNCHANGED <<lines, pending, history, draft, waiting, given, typed, entered>>

-------------------------------------------------------------------------------
(* Commands. *)
Command == [input EXCEPT !.space = FALSE]
Question == Last(Last(input.words)) = "?"
Clears == Command.words = <<Clearing>>

(* The form is sent, with a command in it. *)
Sent == /\ ~pending /\ input.words # <<>>
        /\ given < MaxCommands /\ given' = given + 1
        /\ history' = Remembered(Command)
        /\ cursor' = Len(history') /\ draft' = Nothing
        /\ entered' = Append(entered, Command)
Emptied == pending' = FALSE /\ input' = Nothing /\ typed' = Nothing

(* A command goes to the server. *)
Submit == /\ Sent /\ ~Question /\ ~Clears
          /\ Shown("prompt", given') /\ waiting' = waiting \cup {given'}
          /\ pending' = TRUE /\ input' = Command /\ typed' = Command
(* "?" and "clear" are answered by the page. *)
Ask == /\ Sent /\ Question
       /\ lines' = Trim(lines \o <<[kind |-> "prompt", of |-> given'], [kind |-> "answer", of |-> given']>>)
       /\ Emptied /\ UNCHANGED waiting
Clear == /\ Sent /\ Clears
         /\ lines' = <<[kind |-> "cleared", of |-> 0]>>
         /\ Emptied /\ UNCHANGED waiting
(* The server answers, or the request fails and the error is shown. *)
Answer(n) == /\ n \in waiting /\ waiting' = waiting \ {n}
             /\ Shown("answer", n) /\ Emptied
             /\ UNCHANGED <<history, cursor, draft, given, entered>>

Pressed == Collector /\ given < MaxCommands /\ given' = given + 1
(* setupCollectorAgent *)
Setup == /\ Pressed /\ Shown("setup", given') /\ pending' = FALSE
         /\ UNCHANGED <<input, history, cursor, draft, waiting, typed, entered>>
(* The button that pushes an update, when its request is answered. *)
Update == /\ Pressed /\ Shown("update", given')
          /\ UNCHANGED <<input, pending, history, cursor, draft, waiting, typed, entered>>

Next == \/ \E t \in Texts \cup {Nothing} : Type(t)
        \/ Tab \/ Up \/ Down \/ Submit \/ Ask \/ Clear \/ Setup \/ Update
        \/ \E n \in waiting : Answer(n)

Spec == Init /\ [][Next]_terminalVars /\ WF_terminalVars(\E n \in waiting : Answer(n))

-------------------------------------------------------------------------------
TypeOK == /\ lines # <<>> /\ Len(lines) <= MaxLines /\ Len(history) <= MaxHistory
          /\ cursor \in 0..Len(history) /\ pending \in BOOLEAN

(* The arrow keys bring back the commands as they were given, the latest   *)
(* first and none twice in a row, as many as are kept.                     *)
Runs == SelectSeq([i \in 1..Len(entered) |-> IF i > 1 /\ entered[i] = entered[i - 1] THEN Nothing ELSE entered[i]],
                  LAMBDA w : w # Nothing)
HistoryIsLatest == IsSuffix(history, Runs) /\ (Len(history) < MaxHistory => history = Runs)

(* Going up and down again loses nothing that was typed, unless the agent  *)
(* was set up meanwhile and the answer came while somebody was typing.     *)
TypedComesBack == Collector \/ IF cursor = Len(history) THEN input = typed ELSE draft = typed

(* The answer to a command stands under it, nothing between them; only     *)
(* what was shown long ago is gone.                                        *)
AnswersStandBelow ==
  Collector \/ \A i \in 2..Len(lines) :
    lines[i].kind = "answer" => lines[i - 1] = [kind |-> "prompt", of |-> lines[i].of]

(* A field that takes no input takes it again, once there is an answer.    *)
FieldComesBack == pending ~> ~pending

(* The texts of up to three words. *)
Words == UNION {[1..n -> Letters] : n \in 1..MaxWord}
Typeable == {Nothing} \cup {[words |-> w, space |-> s] : w \in UNION {[1..n -> Words] : n \in 1..3}, s \in BOOLEAN}

(* A text as it stands in the line. *)
Line(t) ==
  LET joined == FoldLeft(LAMBDA line, w : IF line = <<>> THEN w ELSE line \o <<" ">> \o w, <<>>, t.words)
  IN IF t.space THEN joined \o <<" ">> ELSE joined
Offered(ws) == Line([words |-> ws, space |-> FALSE])

(* What Tab completes stays, but for a space after the second word; what   *)
(* "?" offers that begins with the text still does after Tab; and what Tab *)
(* has changed leads to something that "?" offers then.                    *)
TabLeadsOn ==
  LET after == Completed(input) IN
  /\ (input.space => Len(input.words) < 2) => IsPrefix(Line(input), Line(after))
  /\ \A l \in Listed(input) :
       IsPrefix(Line(input), Offered(l)) /\ (\A i \in 1..Len(l) : l[i] \notin Holders)
         => IsPrefix(Line(after), Offered(l) \o <<" ">>)
  /\ after # input => \E l \in Listed(after) : IsPrefix(Line(after), Offered(l))
=============================================================================
