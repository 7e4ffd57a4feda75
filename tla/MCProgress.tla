------------------------------ MODULE MCProgress ------------------------------
(***************************************************************************)
(* Checks the mutex with four calls of run(), one holder and a queue of    *)
(* three, and side by side with it the limit of requests of one key through*)
(* three windows, the login page, the update of the program and the        *)
(* terminals of the tools, in which whoever waits has to get on.  They     *)
(* share no state, so a behaviour is one of one of them: "on" says which,  *)
(* from the start, and the others stand still.  The Tab key of the terminal*)
(* is pressed on every text of up to three words of two letters.           *)
(***************************************************************************)
EXTENDS AsyncMutex, RateLimit

VARIABLES
  on,  \* the component that moves
  account, mfa, entry, loginPage, login, register, health, mistakes, failures,
  up, version, released, cache, limited, watchtower, updatePage, triggered,
  told, asked,
  lines, input, pending, history, cursor, draft, awaited, given, typed, entered

\* A table with what the ones of the program have: words with a common
\* beginning, one subcommand, several, only a holder, a holder beside a
\* subcommand, and none.
Host == <<"<host>">>
Table == [c \in {<<"a", "a">>, <<"a", "b", "a">>, <<"a", "b", "b">>, <<"b", "a", "a">>, <<"b", "b">>} |->
  CASE c = <<"a", "a">> -> {}
    [] c = <<"a", "b", "a">> -> {<<"a">>, <<"b", "a">>, <<"b", "b", "a">>}
    [] c = <<"a", "b", "b">> -> {<<"b", "a">>, Host}
    [] c = <<"b", "a", "a">> -> {Host}
    [] OTHER -> {<<"a", "a">>, <<"a", "b">>, <<"b">>}]
OneWord(w) == [words |-> <<w>>, space |-> FALSE]

\* A command, a question and the one that clears the lines.
SomeTexts == {OneWord(<<"a", "b", "b">>), OneWord(<<"a", "?">>), OneWord(<<"b", "b">>)}

Login == INSTANCE LoginPage WITH
  Tokens <- 1..4, MaxMistakes <- 1, MaxFailures <- 1, page <- loginPage
Update == INSTANCE AppUpdate WITH
  MaxVersion <- 3, CacheTime <- 3, LimitTime <- 2, PollTime <- 2,
  page <- updatePage
Terminal == INSTANCE ToolsTerminal WITH
  Texts <- SomeTexts, Help <- OneWord(<<"a", "a">>), Clearing <- <<"b", "b">>,
  Commands <- DOMAIN Table, Subs <- Table, Holders <- {Host},
  Letters <- {"a", "b"}, MaxWord <- 3, MaxLines <- 3, MaxHistory <- 2,
  Collector <- FALSE, MaxCommands <- 3, waiting <- awaited
AgentTerminal == INSTANCE ToolsTerminal WITH
  Texts <- SomeTexts, Help <- OneWord(<<"a", "a">>), Clearing <- <<"b", "b">>,
  Commands <- DOMAIN Table, Subs <- Table, Holders <- {Host},
  Letters <- {"a", "b"}, MaxWord <- 3, MaxLines <- 3, MaxHistory <- 2,
  Collector <- TRUE, MaxCommands <- 2, waiting <- awaited

loginVars == <<account, mfa, entry, loginPage, login, register, health,
               mistakes, failures>>
updateVars == <<up, version, released, cache, limited, watchtower, updatePage,
                triggered, told, asked>>
terminalVars == <<lines, input, pending, history, cursor, draft, awaited,
                  given, typed, entered>>
progressVars == <<on, mutexVars, limitVars, loginVars, updateVars, terminalVars>>

ProgressInit ==
  /\ on \in {"mutex", "limit", "login", "update", "terminal", "agent terminal", "tab"}
  /\ Init
  /\ LimitInit
  /\ Login!Init /\ (on # "login" => account = [password |-> TRUE, totp |-> "none"] /\ mfa)
  /\ Update!Init
  /\ IF on = "tab"
     THEN /\ input \in Terminal!Typeable /\ typed = input /\ lines = <<>> /\ pending = FALSE
          /\ history = <<>> /\ cursor = 0 /\ draft = input
          /\ awaited = {} /\ given = 0 /\ entered = <<>>
     ELSE Terminal!Init

MutexMoves == /\ on = "mutex" /\ Next
              /\ UNCHANGED <<on, limitVars, loginVars, updateVars, terminalVars>>
LimitMoves == /\ on = "limit" /\ LimitNext
              /\ UNCHANGED <<on, mutexVars, loginVars, updateVars, terminalVars>>
LoginMoves == /\ on = "login" /\ Login!Next
              /\ UNCHANGED <<on, mutexVars, limitVars, updateVars, terminalVars>>
UpdateMoves == /\ on = "update" /\ Update!Next
               /\ UNCHANGED <<on, mutexVars, limitVars, loginVars, terminalVars>>
TerminalMoves == /\ \/ on = "terminal" /\ Terminal!Next
                    \/ on = "agent terminal" /\ AgentTerminal!Next
                    \/ on = "tab" /\ Terminal!Tab
                 /\ UNCHANGED <<on, mutexVars, limitVars, loginVars, updateVars>>

ProgressNext == MutexMoves \/ LimitMoves \/ LoginMoves \/ UpdateMoves \/ TerminalMoves

ProgressSpec ==
  /\ ProgressInit /\ [][ProgressNext]_progressVars
  /\ \A c \in Caller : /\ WF_mutexVars(on = "mutex" /\ Enter(c))
                       /\ WF_mutexVars(on = "mutex" /\ Release(c))
  /\ WF_loginVars(on = "login" /\ (Login!ServeHealth \/ Login!HealthAnswered))
  /\ WF_loginVars(on = "login" /\ Login!ServeLogin)
  /\ WF_loginVars(on = "login" /\ Login!Serve)
  /\ SF_loginVars(on = "login" /\ Login!LoginAnswered)
  /\ SF_loginVars(on = "login" /\ Login!SubmitAnswered)
  /\ SF_loginVars(on = "login" /\ Login!Login(TRUE))
  /\ SF_loginVars(on = "login" /\ Login!Submit(TRUE))
  /\ WF_loginVars(on = "login" /\ Login!Cancel)
  /\ WF_updateVars(on = "update" /\ Update!CheckServed)
  /\ WF_updateVars(on = "update" /\ Update!CheckDone)
  /\ WF_updateVars(on = "update" /\ Update!CheckFailed)
  /\ WF_updateVars(on = "update" /\ Update!ApplyServed)
  /\ WF_updateVars(on = "update" /\ Update!ApplyDone)
  /\ WF_updateVars(on = "update" /\ Update!ApplyFailed)
  /\ WF_updateVars(on = "update" /\ Update!Replace)
  /\ WF_updateVars(on = "update" /\ Update!Start)
  /\ WF_updateVars(on = "update" /\ Update!Poll)
  /\ WF_updateVars(on = "update" /\ Update!Tick)
  /\ WF_terminalVars(on \in {"terminal", "agent terminal"} /\ \E n \in awaited : Terminal!Answer(n))

-------------------------------------------------------------------------------
(* Whoever goes on at the login page gets in, unless the stored            *)
(* authenticator cannot be read.                                           *)
GetsIn == on # "login" \/ Login!GetsIn

(* The button that says "Updating..." does not say so for ever, and neither*)
(* does a terminal take no input for ever.  What its arrow keys bring back *)
(* are the commands given last and what was being typed, and Tab leads on. *)
BusyEnds ==
  /\ []Update!TypeOK /\ Update!BusyEnds
  /\ [](on = "terminal" => /\ Terminal!TypeOK /\ Terminal!HistoryIsLatest
                           /\ Terminal!TypedComesBack /\ Terminal!AnswersStandBelow)
  /\ [](on = "agent terminal" => AgentTerminal!TypeOK /\ AgentTerminal!HistoryIsLatest)
  /\ [](on = "tab" => Terminal!TabLeadsOn)
  /\ Terminal!FieldComesBack
===============================================================================
