-------------------------------- MODULE Chat --------------------------------
(***************************************************************************)
(* inference_server/frontend/chatbot: the Streamlit chat and the history   *)
(* files it keeps, with line 10 read as `import re`.                       *)
(*                                                                         *)
(* A session is a browser tab.  Streamlit runs the script from the top for *)
(* every interaction with the tab, at once and in a thread of its own      *)
(* (runner.fastReruns).  The run that is under way is stopped: it goes on  *)
(* to its next Streamlit call or access to st.session_state and ends       *)
(* there.  Until then it may still append to the list of messages it has   *)
(* fetched, or save it.  All runs share one process and chat_histories/.   *)
(*                                                                         *)
(* Prompts are numbered in the order they are sent, and a run is known by  *)
(* the number of its prompt; the runs of other interactions have nothing   *)
(* to do between two such places but what their actions say.  A message is *)
(* its role with the number of the prompt.  Two texts on top of each other *)
(* in one file are taken to be unreadable unless one covers the other.     *)
(***************************************************************************)
EXTENDS Lists

CONSTANTS Sessions,
          Names, Dirs,       \* what users type as name; directories
          SafeName,          \* [Names -> Dirs \cup {NoDir}]
          NoDir,             \* no character of the name is kept
          Root,              \* chat_histories/ itself, the directory of the name "."
          Texts,             \* what prompts look like in a conversation id
          MaxTime,           \* bound on the clock, in seconds
          MaxPrompts, MaxCrashes

None == <<>>

ASSUME ChatAssumption ==
    /\ NoDir \notin Dirs /\ Root \in Dirs /\ None \notin Names /\ None \notin Sessions
    /\ SafeName \in [Names -> Dirs \cup {NoDir}]
    /\ MaxTime \in Nat /\ MaxPrompts \in Nat /\ MaxCrashes \in Nat

VARIABLES user,              \* user_name of a session
          conv,              \* current_conversation_id
          messages,          \* messages
          at,                \* where the run of a prompt is
          live,              \* the runs that have not been stopped
          tab,               \* the session of a run
          path,              \* the file it saves to; None also for a file removed since
          own,               \* what it saves: None for the list of its session, or <<list>>
          file,              \* contents of the history files
          made,              \* the files that have existed
          clock,             \* the time when an id was last made
          sent, crashes,
          author             \* who sent a prompt: the directory

vars == <<user, conv, messages, at, live, tab, path, own, file, made, clock, sent,
          crashes, author>>
bounds == <<clock, sent, crashes, author>>

ACTIVE == <<"new_chat_active">>
Ids == {ACTIVE} \cup ((0..MaxTime) \X Texts)
Keys == Dirs \X Ids
Runs == 1..MaxPrompts

Absent == [is |-> "absent"]
Empty == [is |-> "empty"]    \* truncated by open(..., "w")
Broken == [is |-> "broken"]  \* two writers' texts on top of each other
History(h) == [is |-> "history", msgs |-> h]

Question(k) == [role |-> "user", prompt |-> k]
Answer(k) == [role |-> "assistant", prompt |-> k]

Init ==
    /\ user = [s \in Sessions |-> None]
    /\ conv = [s \in Sessions |-> None]
    /\ messages = [s \in Sessions |-> <<>>]
    /\ at = [k \in Runs |-> "none"]
    /\ live = {}
    /\ tab = [k \in Runs |-> None]
    /\ path = [k \in Runs |-> None]
    /\ own = [k \in Runs |-> None]
    /\ file = [f \in Keys |-> Absent]
    /\ made = {}
    /\ clock = 0 /\ sent = 0 /\ crashes = 0
    /\ author = [k \in Runs |-> NoDir]

Dir(s) == SafeName[user[s]]
LoggedIn(s) == user[s] # None

Mut_Path(s, c) == <<CHOOSE d \in Dirs : TRUE, c>>

\* get_conversation_file_path, with None for a name that leaves nothing.
Path(s, c) == IF Dir(s) = NoDir THEN None ELSE <<Dir(s), c>>

\* load_conversation: a missing or unreadable file is an empty history.
Load(s, c) ==
    IF Path(s, c) # None /\ file[Path(s, c)].is = "history" THEN file[Path(s, c)].msgs ELSE <<>>

\* get_user_conversations: what the sidebar has listed; it may be gone since.
\* Without a directory of its own a name is shown those of chat_histories/.
Listed(s) == {c \in Ids : <<IF Dir(s) = NoDir THEN Root ELSE Dir(s), c>> \in made}

-----------------------------------------------------------------------------
(* Interactions: the run of the session is stopped.                        *)

Of(s) == {k \in Runs : tab[k] = s}

\* With a Streamlit call while the file of save_conversation is open.
Mut_Undisturbed == {"append", "answer", "save", "close"}

\* Where a run has something left to do before it can notice that it is stopped.
Undisturbed == {"append", "answer", "save", "write", "close"}

Stop(s) ==
    /\ live' = live \ Of(s)
    /\ at' = [k \in Runs |-> IF tab[k] = s /\ at[k] \notin Undisturbed \cup {"none"}
                             THEN "over" ELSE at[k]]
    /\ UNCHANGED <<messages, own>>

\* With the old list changed in place.
Mut_StopAndSet(s, h) ==
    /\ live' = live \ Of(s)
    /\ at' = [k \in Runs |-> IF tab[k] = s /\ at[k] \notin Undisturbed \cup {"none"}
                             THEN "over" ELSE at[k]]
    /\ messages' = [messages EXCEPT ![s] = h]
    /\ UNCHANGED own

\* The session gets another list of messages: nobody sees any more what a stopped
\* run appends to the old one, and what it saves is the old one.
StopAndSet(s, h) ==
    /\ live' = live \ Of(s)
    /\ at' = [k \in Runs |-> IF tab[k] = s /\ at[k] \notin {"none", "save", "write", "close"}
                             THEN "over" ELSE at[k]]
    /\ messages' = [messages EXCEPT ![s] = h]
    /\ own' = [k \in Runs |-> IF tab[k] = s /\ at[k] \in {"save", "write"} /\ own[k] = None
                              THEN <<messages[s]>> ELSE own[k]]

\* "Entrar no Chat"; a run stopped before line 311 leaves no conversation id.
Login(s, n) ==
    /\ ~LoggedIn(s)
    /\ user' = [user EXCEPT ![s] = n]
    /\ \E c \in {ACTIVE, None} : conv' = [conv EXCEPT ![s] = c]
    /\ StopAndSet(s, <<>>)
    /\ UNCHANGED <<tab, path, file, made, bounds>>

\* A prompt, as far as line 341: a new conversation is named after the time.
Prompt(s, t) ==
    LET k == sent + 1
    IN /\ LoggedIn(s) /\ sent < MaxPrompts
       /\ \/ conv[s] # None /\ UNCHANGED <<conv, clock>>
          \/ /\ conv[s] = None
             /\ clock' \in clock..MaxTime
             /\ conv' = [conv EXCEPT ![s] = <<clock', t>>]
       /\ sent' = k
       /\ tab' = [tab EXCEPT ![k] = s]
       /\ author' = [author EXCEPT ![k] = Dir(s)]
       /\ live' = (live \ Of(s)) \cup {k}
       /\ at' = [j \in Runs |-> IF j = k THEN "sent"
                                ELSE IF tab[j] = s /\ at[j] \notin Undisturbed THEN "over"
                                ELSE at[j]]
       /\ UNCHANGED <<user, messages, path, own, file, made, crashes>>

\* on_conversation_select: "new_chat" or a conversation of the list.  A run stopped
\* between its two assignments makes only the first.
Select(s, c) ==
    /\ LoggedIn(s)
    /\ \/ /\ c = None
          /\ StopAndSet(s, <<>>)
          /\ \E d \in {conv[s], None} : conv' = [conv EXCEPT ![s] = d]
       \/ /\ c \in Listed(s)
          /\ conv' = [conv EXCEPT ![s] = c]
          /\ StopAndSet(s, Load(s, c)) \/ Stop(s)
    /\ UNCHANGED <<user, tab, path, file, made, bounds>>

\* "Limpar Conversa Atual", with a file; a run that has it open writes to nowhere.
\* This run too may be stopped after its first or its second change.
Clear(s) ==
    LET p == Path(s, conv[s])
    IN /\ LoggedIn(s) /\ conv[s] # None /\ p # None /\ file[p] # Absent
       /\ file' = [file EXCEPT ![p] = Absent]
       /\ path' = [k \in Runs |-> IF path[k] = p /\ at[k] \in {"write", "close"}
                                  THEN None ELSE path[k]]
       /\ \/ Stop(s) /\ UNCHANGED conv
          \/ /\ StopAndSet(s, <<>>)
             /\ \E d \in {conv[s], None} : conv' = [conv EXCEPT ![s] = d]
       /\ UNCHANGED <<user, tab, made, bounds>>

\* Any other widget is used, or the run raises what it does not catch.
Rerun(s) ==
    /\ live \cap Of(s) # {}
    /\ Stop(s)
    /\ UNCHANGED <<user, conv, tab, path, file, made, bounds>>

\* The page is loaded again: Streamlit starts a new session.
Reload(s) ==
    /\ LoggedIn(s)
    /\ user' = [user EXCEPT ![s] = None]
    /\ conv' = [conv EXCEPT ![s] = None]
    /\ StopAndSet(s, <<>>)
    /\ UNCHANGED <<tab, path, file, made, bounds>>

-----------------------------------------------------------------------------
(* The run of a prompt.                                                    *)

\* A stopped run ends where a live one goes on to l.
Goto(k, l) == at' = [at EXCEPT ![k] = IF k \in live THEN l ELSE "over"]
Over(k) == at' = [at EXCEPT ![k] = "over"] /\ live' = live \ {k}
AppendMessage(k, m) == messages' = [messages EXCEPT ![tab[k]] = Append(@, m)]

\* Lines 343-364 up to the access to messages, and the append.
FetchForQuestion(k) ==
    /\ at[k] = "sent"
    /\ Goto(k, "append")
    /\ UNCHANGED <<user, conv, messages, live, tab, path, own, file, made, bounds>>
AppendQuestion(k) ==
    /\ at[k] = "append"
    /\ AppendMessage(k, Question(k))
    /\ Goto(k, "asking")
    /\ UNCHANGED <<user, conv, live, tab, path, own, file, made, bounds>>

\* The stream ends, or an error chunk ends it: line 407.
FetchForAnswer(k) ==
    /\ at[k] = "asking"
    /\ Goto(k, "answer")
    /\ UNCHANGED <<user, conv, messages, live, tab, path, own, file, made, bounds>>

Mut_AppendAnswer(k) ==
    /\ at[k] = "answer"
    /\ Goto(k, "answered")
    /\ UNCHANGED <<user, conv, messages, live, tab, path, own, file, made, bounds>>

AppendAnswer(k) ==
    /\ at[k] = "answer"
    /\ AppendMessage(k, Answer(k))
    /\ Goto(k, "answered")
    /\ UNCHANGED <<user, conv, live, tab, path, own, file, made, bounds>>

\* Line 408: the conversation id and the messages are fetched; save_conversation
\* computes the path,
FetchForSave(k) ==
    LET p == Path(tab[k], conv[tab[k]])
    IN /\ at[k] = "answered"
       /\ path' = [path EXCEPT ![k] = p]
       /\ IF p = None THEN Over(k) ELSE Goto(k, "save") /\ UNCHANGED live
       /\ UNCHANGED <<user, conv, messages, tab, own, file, made, bounds>>

\* opens the file, which truncates it,
OpenFile(k) ==
    /\ at[k] = "save"
    /\ at' = [at EXCEPT ![k] = "write"]
    /\ file' = [file EXCEPT ![path[k]] = Empty]
    /\ made' = made \cup {path[k]}
    /\ UNCHANGED <<user, conv, messages, live, tab, path, own, bounds>>

\* turns the list as it is by then into text,
Dump(k) ==
    /\ at[k] = "write"
    /\ at' = [at EXCEPT ![k] = "close"]
    /\ own' = [own EXCEPT ![k] = IF @ = None THEN <<messages[tab[k]]>> ELSE @]
    /\ UNCHANGED <<user, conv, messages, live, tab, path, file, made, bounds>>

\* and writes it out.  If another run has the file open or has written to it, what
\* sticks out behind the shorter text, or a gap before it, may make it unreadable.
Contested(k) ==
    \/ file[path[k]] # Empty
    \/ \E j \in Runs \ {k} : path[j] = path[k] /\ at[j] \in {"write", "close"}
CloseFile(k) ==
    /\ at[k] = "close"
    /\ IF path[k] = None THEN UNCHANGED file
       ELSE \E new \in {History(own[k][1])} \cup (IF Contested(k) THEN {Broken} ELSE {}) :
                file' = [file EXCEPT ![path[k]] = new]
    /\ path' = [path EXCEPT ![k] = None]
    /\ own' = [own EXCEPT ![k] = None]
    /\ Over(k)
    /\ UNCHANGED <<user, conv, messages, tab, made, bounds>>

\* The server process ends and is started again.
Crash ==
    /\ crashes < MaxCrashes
    /\ crashes' = crashes + 1
    /\ user' = [s \in Sessions |-> None]
    /\ conv' = [s \in Sessions |-> None]
    /\ messages' = [s \in Sessions |-> <<>>]
    /\ at' = [k \in Runs |-> IF k <= sent THEN "over" ELSE "none"]
    /\ live' = {}
    /\ path' = [k \in Runs |-> None]
    /\ own' = [k \in Runs |-> None]
    /\ UNCHANGED <<tab, file, made, clock, sent, author>>

Interaction(s) ==
    \/ \E n \in Names : Login(s, n)
    \/ \E t \in Texts : Prompt(s, t)
    \/ \E c \in Ids \cup {None} : Select(s, c)
    \/ Clear(s) \/ Rerun(s) \/ Reload(s)
RunStep(k) ==
    \/ FetchForQuestion(k) \/ AppendQuestion(k) \/ FetchForAnswer(k)
    \/ AppendAnswer(k) \/ FetchForSave(k) \/ OpenFile(k) \/ Dump(k) \/ CloseFile(k)

Next ==
    \/ \E s \in Sessions : Interaction(s)
    \/ \E k \in Runs : RunStep(k)
    \/ Crash

Spec == Init /\ [][Next]_vars

-----------------------------------------------------------------------------
(* Properties.                                                             *)

Labels == {"none", "sent", "asking", "answered", "over"} \cup Undisturbed
Stored == {f \in Keys : file[f].is = "history"}
Saving == {k \in Runs : at[k] \in {"save", "write", "close"}}
ToSave(k) == IF own[k] = None THEN messages[tab[k]] ELSE own[k][1]
Histories == {messages[s] : s \in Sessions} \cup {file[f].msgs : f \in Stored}
             \cup {ToSave(k) : k \in Saving}
Messages == [role : {"user", "assistant"}, prompt : Runs]

TypeOK ==
    /\ user \in [Sessions -> Names \cup {None}]
    /\ conv \in [Sessions -> Ids \cup {None}]
    /\ messages \in [Sessions -> Seq(Messages)]
    /\ at \in [Runs -> Labels] /\ live \subseteq Runs
    /\ tab \in [Runs -> Sessions \cup {None}]
    /\ path \in [Runs -> Keys \cup {None}]
    /\ own = [k \in Runs |-> own[k]]
    /\ \A k \in Runs : \/ own[k] = None
                       \/ own[k] = <<own[k][1]>> /\ own[k][1] \in Seq(Messages)
    /\ file = [f \in Keys |-> file[f]]
    /\ \A f \in Keys : \/ file[f] \in {Absent, Empty, Broken}
                       \/ file[f] = History(file[f].msgs) /\ file[f].msgs \in Seq(Messages)
    /\ made \subseteq Keys
    /\ clock \in 0..MaxTime /\ sent \in 0..MaxPrompts /\ crashes \in 0..MaxCrashes
    /\ author \in [Runs -> Dirs \cup {NoDir}]

\* No message stands twice in h, and an answer stands behind its own question.
Paired(h) ==
    /\ \A i, j \in 1..Len(h) : h[i] = h[j] => i = j
    /\ \A i \in 1..Len(h) : h[i].role = "assistant" =>
           \E j \in 1..(i - 1) : h[j] = Question(h[i].prompt)

\* In every history shown, sent to the model or stored, an answer stands behind the
\* question it was made for, and nothing stands twice: no stopped run, no change of
\* conversation that it overlaps, no reload and no second tab puts an answer into a
\* history it was not made from (lines 364, 407).
AnswersFollowPrompts == \A h \in Histories : Paired(h)

\* A file that open has truncated (line 193) is filled: the run that opened it is
\* still about to write, unless the server has crashed.  Stopping a run, removing
\* the file or a second tab that saves to it never leaves it empty.
TruncatedIsFilled ==
    crashes = 0 => \A f \in Keys : file[f] = Empty =>
        \E k \in Runs : path[k] = f /\ at[k] \in {"write", "close"}

\* A session shows only what was written under its own directory, and a
\* directory stores only that.
OwnMessagesOnly ==
    /\ \A s \in Sessions : LoggedIn(s) =>
           \A i \in 1..Len(messages[s]) : author[messages[s][i].prompt] = Dir(s)
    /\ \A f \in Stored : \A i \in 1..Len(file[f].msgs) : author[file[f].msgs[i].prompt] = f[1]

\* Where a run stands agrees with its session, although others may have been started
\* meanwhile: one that was not stopped is the only such run of its tab, has a
\* conversation to save to, and its question, later its answer, is in the list of
\* the session; what a run is saving, stopped or not, has both.
ChatInv ==
    /\ TypeOK
    /\ \A s \in Sessions : ~LoggedIn(s) => messages[s] = <<>> /\ live \cap Of(s) = {}
    /\ \A j, k \in live : tab[j] = tab[k] => j = k
    /\ \A k \in live : conv[tab[k]] \in Ids /\ author[k] = Dir(tab[k])
    /\ \A k \in Runs :
          /\ at[k] \in {"asking", "answer", "answered"} => Question(k) \in ToSet(messages[tab[k]])
          /\ at[k] = "answered" => Answer(k) \in ToSet(messages[tab[k]])
          /\ k \in Saving => {Question(k), Answer(k)} \subseteq ToSet(ToSave(k))
          /\ k \in Saving /\ path[k] # None => path[k][1] = author[k]
=============================================================================
