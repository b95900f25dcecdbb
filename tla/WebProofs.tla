----------------------------- MODULE WebProofs ------------------------------
(* Proofs about the two web applications, which share nothing: about Chat, *)
(* for any number of tabs, users, prompts, crashes and seconds and every   *)
(* way of making a directory of a name; about Middleware, for every set of *)
(* requests of any kinds, every number of threads and every database.      *)
EXTENDS Chat, Middleware, TLAPS

-----------------------------------------------------------------------------
(* The chat.                                                               *)

USE ZenonT(10), SMTT(10), ZenonT(60)

\* What a run has come to: its question is in a list, so is its answer.
Asked(l) == l \notin {"none", "sent", "append"}
Replied(l) == l \in {"answered", "save", "write", "close", "over"}

\* A history that holds a message only if, by a, its run has appended it; and one
\* that, by u, was written under d.
Sound(h, a) ==
    /\ h \in Seq(Messages) /\ Paired(h)
    /\ \A i \in 1..Len(h) : IF h[i].role = "user" THEN Asked(a[h[i].prompt])
                                                  ELSE Replied(a[h[i].prompt])
From(h, d, u) == \A i \in 1..Len(h) : u[h[i].prompt] = d

\* A run that works with the list of its session, not with one that was replaced.
Attached(k) ==
    \/ at[k] \in {"sent", "append", "asking", "answer", "answered"}
    \/ at[k] \in {"save", "write"} /\ own[k] = None

\* The four invariants of the chat run, a tab, a run and a file at a time.
SessionOK(s) ==
    /\ Sound(messages[s], at)
    /\ LoggedIn(s) => From(messages[s], Dir(s), author)
    /\ ~LoggedIn(s) => messages[s] = <<>>
RunOK(k) ==
    /\ at[k] = "none" <=> k > sent
    /\ tab[k] = None <=> at[k] = "none"
    /\ k \in live => at[k] \notin {"none", "over"} /\ conv[tab[k]] \in Ids
    /\ k \notin live => at[k] \in Undisturbed \cup {"none", "over"}
    /\ k \in live \/ Attached(k) => LoggedIn(tab[k]) /\ author[k] = Dir(tab[k])
    /\ Attached(k) /\ Asked(at[k]) => Question(k) \in ToSet(messages[tab[k]])
    /\ Attached(k) /\ Replied(at[k]) => Answer(k) \in ToSet(messages[tab[k]])
    /\ own[k] # None =>
          /\ at[k] \in {"save", "write", "close"}
          /\ Sound(own[k][1], at) /\ From(own[k][1], author[k], author)
          /\ {Question(k), Answer(k)} \subseteq ToSet(own[k][1])
    /\ at[k] = "close" => own[k] # None
    /\ at[k] = "save" => path[k] # None
    /\ path[k] # None => at[k] \in {"save", "write", "close"} /\ path[k][1] = author[k]
FileOK(f) ==
    file[f].is = "history" => Sound(file[f].msgs, at) /\ From(file[f].msgs, f[1], author)
Alone == \A j, k \in live : tab[j] = tab[k] => j = k
HistoryInv ==
    /\ TypeOK /\ Alone /\ TruncatedIsFilled
    /\ \A s \in Sessions : SessionOK(s)
    /\ \A k \in Runs : RunOK(k)
    /\ \A f \in Keys : FileOK(f)

-----------------------------------------------------------------------------
(* Histories.                                                              *)

\* No run takes back what it has appended.
Forward(a, b) ==
    \A k \in Runs : (Asked(a[k]) => Asked(b[k])) /\ (Replied(a[k]) => Replied(b[k]))

\* The empty history, of a new conversation or an unreadable file.
LEMMA EmptySound ==
    /\ <<>> \in Seq(Messages) /\ ToSet(<<>>) = {}
    /\ \A a : Sound(<<>>, a)
    /\ \A d, u : From(<<>>, d, u)
  BY DEF Sound, Paired, From, ToSet

\* The messages of a history are those of runs.
LEMMA PromptIs ==
    ASSUME NEW h \in Seq(Messages), NEW i \in 1..Len(h)
    PROVE  h[i] \in Messages /\ h[i].prompt \in Runs
  <1>1. h[i] \in Messages
    OBVIOUS
  <1> QED
    BY <1>1 DEF Messages

\* A history stays sound while runs go on, ...
LEMMA SoundForward ==
    ASSUME NEW h, NEW a, NEW b, Sound(h, a), Forward(a, b)
    PROVE  Sound(h, b)
  <1>1. \A i \in 1..Len(h) : h[i].prompt \in Runs
    BY PromptIs DEF Sound
  <1> QED
    BY <1>1 DEF Sound, Forward

\* ... and keeps its author when prompts are sent that it does not hold.
LEMMA FromKept ==
    ASSUME NEW h, NEW a, NEW d, NEW u, NEW v, Sound(h, a), From(h, d, u),
           \A k \in Runs : a[k] # "none" => v[k] = u[k]
    PROVE  From(h, d, v)
  <1>1. \A i \in 1..Len(h) : h[i].prompt \in Runs /\ a[h[i].prompt] # "none"
    BY PromptIs DEF Sound, Asked, Replied
  <1> QED
    BY <1>1 DEF From

\* What the messages of a run are, and that they differ.
LEMMA MessageIs ==
    ASSUME NEW k \in Runs
    PROVE  /\ Question(k) \in Messages /\ Question(k).role = "user" /\ Question(k).prompt = k
           /\ Answer(k) \in Messages /\ Answer(k).role = "assistant" /\ Answer(k).prompt = k
  BY DEF Question, Answer, Messages

\* A message that is new in a history, an answer to a question in it, keeps it sound.
LEMMA AppendSound ==
    ASSUME NEW h, NEW a, NEW b, NEW m \in Messages, Sound(h, a), Forward(a, b),
           IF m.role = "user" THEN ~Asked(a[m.prompt]) /\ Asked(b[m.prompt])
           ELSE /\ ~Replied(a[m.prompt]) /\ Replied(b[m.prompt])
                /\ Question(m.prompt) \in ToSet(h)
    PROVE  /\ Sound(Append(h, m), b)
           /\ ToSet(h) \subseteq ToSet(Append(h, m)) /\ m \in ToSet(Append(h, m))
  <1> DEFINE g == Append(h, m)
  <1>1. h \in Seq(Messages) /\ Len(h) \in Nat /\ Sound(h, b)
    BY SoundForward DEF Sound
  <1>2. /\ g \in Seq(Messages) /\ Len(g) = Len(h) + 1 /\ g[Len(h) + 1] = m
        /\ \A i \in 1..Len(h) : g[i] = h[i]
    BY <1>1
  <1> HIDE DEF g
  <1>3. \A i \in 1..Len(h) : h[i] # m
    BY DEF Sound
  <1>4. \A i, j \in 1..Len(g) : g[i] = g[j] => i = j
    <2> SUFFICES ASSUME NEW i \in 1..Len(g), NEW j \in 1..Len(g), g[i] = g[j]
                 PROVE  i = j
      OBVIOUS
    <2>1. CASE i \in 1..Len(h) /\ j \in 1..Len(h)
      BY <1>1, <1>2, <2>1 DEF Sound, Paired
    <2>2. CASE i = Len(h) + 1 \/ j = Len(h) + 1
      BY <1>1, <1>2, <1>3, <2>2
    <2> QED
      BY <1>1, <1>2, <2>1, <2>2
  <1>5. \A i \in 1..Len(g) : g[i].role = "assistant" =>
            \E j \in 1..(i - 1) : g[j] = Question(g[i].prompt)
    <2> SUFFICES ASSUME NEW i \in 1..Len(g), g[i].role = "assistant"
                 PROVE  \E j \in 1..(i - 1) : g[j] = Question(g[i].prompt)
      OBVIOUS
    <2>1. CASE i \in 1..Len(h)
      <3>1. PICK j \in 1..(i - 1) : h[j] = Question(h[i].prompt)
        BY <1>1, <1>2, <2>1 DEF Sound, Paired
      <3>2. j \in 1..Len(h)
        BY <1>1, <2>1
      <3> QED
        BY <1>2, <2>1, <3>1, <3>2
    <2>2. CASE i = Len(h) + 1
      <3>1. m.role # "user"
        BY <1>2, <2>2
      <3>2. PICK j \in 1..Len(h) : h[j] = Question(m.prompt)
        BY <1>1, <3>1 DEF ToSet
      <3>3. j \in 1..(i - 1)
        BY <1>1, <2>2
      <3> QED
        BY <1>2, <2>2, <3>2, <3>3
    <2> QED
      BY <1>1, <1>2, <2>1, <2>2
  <1>6. \A i \in 1..Len(g) : IF g[i].role = "user" THEN Asked(b[g[i].prompt])
                                                  ELSE Replied(b[g[i].prompt])
    BY <1>1, <1>2 DEF Sound
  <1>7. ToSet(h) \subseteq ToSet(g) /\ m \in ToSet(g)
    BY <1>1, <1>2 DEF ToSet
  <1> QED
    BY <1>2, <1>4, <1>5, <1>6, <1>7 DEF Sound, Paired, g

\* A message of the author of a history keeps it theirs.
LEMMA AppendFrom ==
    ASSUME NEW h \in Seq(Messages), NEW m \in Messages, NEW d, NEW u,
           From(h, d, u), u[m.prompt] = d
    PROVE  From(Append(h, m), d, u)
  <1>1. /\ Len(Append(h, m)) = Len(h) + 1 /\ Append(h, m)[Len(h) + 1] = m
        /\ \A i \in 1..Len(h) : Append(h, m)[i] = h[i]
    OBVIOUS
  <1> QED
    BY <1>1 DEF From

-----------------------------------------------------------------------------
(* Paths and files.                                                        *)

\* The path of a conversation of a user with a directory is in that directory.
LEMMA PathIs ==
    ASSUME TypeOK, NEW s \in Sessions, LoggedIn(s), NEW c \in Ids
    PROVE  /\ Dir(s) \in Dirs \cup {NoDir}
           /\ Dir(s) = NoDir => Path(s, c) = None
           /\ Dir(s) # NoDir => /\ Path(s, c) # None /\ Path(s, c) \in Keys
                                /\ Path(s, c) = <<Dir(s), c>> /\ Path(s, c)[1] = Dir(s)
  <1>1. user[s] \in Names
    BY DEF TypeOK, LoggedIn
  <1>2. Dir(s) \in Dirs \cup {NoDir}
    BY <1>1, ChatAssumption DEF Dir
  <1>3. ASSUME Dir(s) # NoDir
        PROVE  Path(s, c) = <<Dir(s), c>> /\ Path(s, c) \in Keys /\ Path(s, c)[1] = Dir(s)
    BY <1>2, <1>3 DEF Path, Keys
  <1>4. ASSUME Dir(s) # NoDir PROVE Path(s, c) # None
    <2>1. <<Dir(s), c>> # <<>>
      OBVIOUS
    <2> QED
      BY <1>3, <1>4, <2>1 DEF None
  <1> QED
    BY <1>2, <1>3, <1>4 DEF Path

\* What the tags of the contents of a file tell apart.
LEMMA Contents ==
    /\ Absent.is # "history" /\ Empty.is # "history" /\ Broken.is # "history"
    /\ \A h : History(h).is = "history" /\ History(h).msgs = h
  BY DEF Absent, Empty, Broken, History

\* No file is named None.
LEMMA KeyIs == \A f \in Keys : f # None
  <1> SUFFICES ASSUME NEW d \in Dirs, NEW c \in Ids PROVE <<d, c>> # None
    BY DEF Keys
  <1> QED
    BY DEF None

\* A list that was put into own.
LEMMA Tagged == \A x : <<x>> # None /\ <<x>>[1] = x
  BY DEF None

\* The session of a run that was started is a session.
LEMMA TabIs ==
    ASSUME TypeOK, NEW k \in Runs, RunOK(k)
    PROVE  at[k] # "none" => tab[k] \in Sessions
  BY DEF TypeOK, RunOK

\* What a run is saving is sound and written under its author's directory.
LEMMA ToSaveIs ==
    ASSUME HistoryInv, NEW k \in Saving
    PROVE  /\ Sound(ToSave(k), at) /\ From(ToSave(k), author[k], author)
           /\ {Question(k), Answer(k)} \subseteq ToSet(ToSave(k))
  <1>1. k \in Runs /\ RunOK(k) /\ at[k] \in {"save", "write", "close"}
    BY DEF HistoryInv, Saving
  <1>2. CASE own[k] # None
    BY <1>1, <1>2 DEF ToSave, RunOK
  <1>3. CASE own[k] = None
    <2>1. Attached(k) /\ Asked(at[k]) /\ Replied(at[k])
      BY <1>1, <1>3 DEF RunOK, Attached, Asked, Replied
    <2>2. tab[k] \in Sessions
      BY <1>1, TabIs DEF HistoryInv
    <2>3. SessionOK(tab[k]) /\ LoggedIn(tab[k]) /\ author[k] = Dir(tab[k])
      BY <1>1, <2>1, <2>2 DEF HistoryInv, RunOK
    <2>4. Sound(messages[tab[k]], at) /\ From(messages[tab[k]], author[k], author)
      BY <2>3 DEF SessionOK
    <2>5. {Question(k), Answer(k)} \subseteq ToSet(messages[tab[k]])
      BY <1>1, <2>1 DEF RunOK
    <2> QED
      BY <1>3, <2>4, <2>5 DEF ToSave
  <1> QED
    BY <1>2, <1>3

\* The invariant, a tab, a run and a file at a time, says what the run checks.
LEMMA InvIs ==
    HistoryInv => ChatInv /\ AnswersFollowPrompts /\ TruncatedIsFilled /\ OwnMessagesOnly
  <1> SUFFICES ASSUME HistoryInv
               PROVE  ChatInv /\ AnswersFollowPrompts /\ TruncatedIsFilled /\ OwnMessagesOnly
    OBVIOUS
  <1>1. \A f \in Stored : f \in Keys /\ Sound(file[f].msgs, at) /\ From(file[f].msgs, f[1], author)
    BY DEF HistoryInv, Stored, FileOK
  <1>2. \A h \in Histories : Sound(h, at)
    BY <1>1, ToSaveIs DEF HistoryInv, Histories, SessionOK
  <1>3. AnswersFollowPrompts
    BY <1>2 DEF AnswersFollowPrompts, Sound
  <1>4. OwnMessagesOnly
    BY <1>1 DEF OwnMessagesOnly, HistoryInv, SessionOK, From
  <1>5. ASSUME NEW s \in Sessions, ~LoggedIn(s)
        PROVE  messages[s] = <<>> /\ live \cap Of(s) = {}
    BY <1>5 DEF HistoryInv, SessionOK, RunOK, Of
  <1>6. \A k \in live : conv[tab[k]] \in Ids /\ author[k] = Dir(tab[k])
    BY DEF HistoryInv, TypeOK, RunOK
  <1>7. ASSUME NEW k \in Runs
        PROVE  /\ at[k] \in {"asking", "answer", "answered"} =>
                      Question(k) \in ToSet(messages[tab[k]])
               /\ at[k] = "answered" => Answer(k) \in ToSet(messages[tab[k]])
               /\ k \in Saving => {Question(k), Answer(k)} \subseteq ToSet(ToSave(k))
               /\ k \in Saving /\ path[k] # None => path[k][1] = author[k]
    <2>1. RunOK(k)
      BY DEF HistoryInv
    <2>2. k \in Saving => {Question(k), Answer(k)} \subseteq ToSet(ToSave(k))
      BY ToSaveIs
    <2> QED
      BY <2>1, <2>2 DEF RunOK, Attached, Asked, Replied
  <1>8. ChatInv
    BY <1>5, <1>6, <1>7 DEF ChatInv, HistoryInv, Alone
  <1> QED
    BY <1>3, <1>4, <1>8 DEF HistoryInv

\* The server starts without sessions, and its directory with no file.
LEMMA HistoryInit == Init => HistoryInv
  <1> SUFFICES ASSUME Init PROVE HistoryInv
    OBVIOUS
  <1>1. TypeOK
    BY EmptySound, ChatAssumption DEF Init, TypeOK, Labels, Runs, None
  <1>2. \A s \in Sessions : SessionOK(s)
    BY EmptySound DEF Init, SessionOK, LoggedIn
  <1>3. \A k \in Runs : RunOK(k)
    BY DEF Init, RunOK, Attached, Runs
  <1>4. \A f \in Keys : FileOK(f)
    BY Contents DEF Init, FileOK
  <1>5. Alone /\ TruncatedIsFilled
    BY DEF Init, Alone, TruncatedIsFilled, Absent, Empty
  <1> QED
    BY <1>1, <1>2, <1>3, <1>4, <1>5 DEF HistoryInv

-----------------------------------------------------------------------------
(* What a step leaves alone.                                               *)

\* Nobody becomes the author of a prompt that was sent before.
AuthorsKept == \A k \in Runs : at[k] # "none" => author'[k] = author[k]

\* A step that leaves the name and the list of a tab alone.
LEMMA SessionFrame ==
    ASSUME NEW s \in Sessions, SessionOK(s), Forward(at, at'), AuthorsKept,
           user'[s] = user[s], messages'[s] = messages[s]
    PROVE  SessionOK(s)'
  <1>1. Sound(messages[s], at)
    BY DEF SessionOK
  <1>2. Sound(messages[s], at')
    BY <1>1, SoundForward
  <1>3. ASSUME LoggedIn(s) PROVE From(messages[s], Dir(s), author')
    BY <1>1, <1>3, FromKept DEF SessionOK, AuthorsKept
  <1> QED
    BY <1>2, <1>3 DEF SessionOK, LoggedIn, Dir

\* A step that leaves a file alone, empties, removes or spoils it.
LEMMA FileFrame ==
    ASSUME NEW f \in Keys, FileOK(f), Forward(at, at'), AuthorsKept,
           file'[f] = file[f] \/ file'[f].is # "history"
    PROVE  FileOK(f)'
  <1> SUFFICES ASSUME file'[f].is = "history"
               PROVE  Sound(file'[f].msgs, at') /\ From(file'[f].msgs, f[1], author')
    BY DEF FileOK
  <1>1. file'[f] = file[f] /\ Sound(file[f].msgs, at) /\ From(file[f].msgs, f[1], author)
    BY DEF FileOK
  <1>2. Sound(file[f].msgs, at')
    BY <1>1, SoundForward
  <1>3. From(file[f].msgs, f[1], author')
    BY <1>1, FromKept DEF AuthorsKept
  <1> QED
    BY <1>1, <1>2, <1>3

\* A step after which a run is where it was, stopped perhaps; its file may have been
\* removed, and others may have appended to its list.
LEMMA RunFrame ==
    ASSUME TypeOK, NEW k \in Runs, RunOK(k), Forward(at, at'), AuthorsKept,
           at'[k] = at[k], tab'[k] = tab[k], own'[k] = own[k], (k > sent') <=> (k > sent),
           path'[k] = path[k] \/ (path'[k] = None /\ at[k] # "save"),
           k \in live' => k \in live /\ conv'[tab[k]] = conv[tab[k]],
           k \notin live' => k \notin live \/ at[k] \in Undisturbed,
           k \in live' \/ Attached(k) => user'[tab[k]] = user[tab[k]],
           Attached(k) => ToSet(messages[tab[k]]) \subseteq ToSet(messages'[tab[k]])
    PROVE  RunOK(k)'
  <1>1. Attached(k)' <=> Attached(k)
    BY DEF Attached
  <1>2. at[k] # "none" => author'[k] = author[k]
    BY DEF AuthorsKept
  <1>3. /\ (at[k] = "none") <=> (k > sent')
        /\ (tab[k] = None) <=> (at[k] = "none")
    BY DEF RunOK
  <1>4. /\ k \in live' => at[k] \notin {"none", "over"} /\ conv'[tab[k]] \in Ids
        /\ k \notin live' => at[k] \in Undisturbed \cup {"none", "over"}
    BY DEF RunOK
  <1>5. ASSUME k \in live' \/ Attached(k)
        PROVE  user'[tab[k]] # None /\ author'[k] = SafeName[user'[tab[k]]]
    <2>1. at[k] # "none" /\ LoggedIn(tab[k]) /\ author[k] = Dir(tab[k])
      BY <1>5 DEF RunOK, Attached
    <2> QED
      BY <1>2, <1>5, <2>1 DEF LoggedIn, Dir
  <1>6. ASSUME own[k] # None
        PROVE  /\ at[k] \in {"save", "write", "close"}
               /\ Sound(own[k][1], at') /\ From(own[k][1], author'[k], author')
               /\ {Question(k), Answer(k)} \subseteq ToSet(own[k][1])
    <2>1. /\ at[k] \in {"save", "write", "close"}
          /\ Sound(own[k][1], at) /\ From(own[k][1], author[k], author)
          /\ {Question(k), Answer(k)} \subseteq ToSet(own[k][1])
      BY <1>6 DEF RunOK
    <2>2. Sound(own[k][1], at')
      BY <2>1, SoundForward
    <2>3. From(own[k][1], author[k], author')
      BY <2>1, FromKept DEF AuthorsKept
    <2> QED
      BY <1>2, <2>1, <2>2, <2>3
  <1>7. /\ at[k] = "close" => own[k] # None
        /\ at[k] = "save" => path'[k] # None
        /\ path'[k] # None => at[k] \in {"save", "write", "close"} /\ path'[k][1] = author'[k]
    BY <1>2 DEF RunOK
  <1>8. /\ Attached(k) /\ Asked(at[k]) => Question(k) \in ToSet(messages'[tab[k]])
        /\ Attached(k) /\ Replied(at[k]) => Answer(k) \in ToSet(messages'[tab[k]])
    BY DEF RunOK
  <1> QED
    BY <1>1, <1>3, <1>4, <1>5, <1>6, <1>7, <1>8 DEF RunOK, LoggedIn, Dir

\* A run that a step ends.
LEMMA RunEnds ==
    ASSUME NEW k \in Runs, RunOK(k), at[k] # "none", at'[k] = "over", tab'[k] = tab[k],
           own'[k] = None, path'[k] = None, k \notin live', (k > sent') <=> (k > sent)
    PROVE  RunOK(k)'
  BY DEF RunOK, Attached

\* A step that keeps every file and every writer keeps the writers of empty files.
LEMMA FilledFrame ==
    ASSUME TruncatedIsFilled, crashes' = crashes, file' = file,
           \A k \in Runs : at[k] \in {"write", "close"} =>
               at'[k] \in {"write", "close"} /\ path'[k] = path[k]
    PROVE  TruncatedIsFilled'
  BY DEF TruncatedIsFilled

-----------------------------------------------------------------------------
(* Interactions.                                                           *)

\* A step after which the tabs and the runs have what the invariant says of them.
Kept ==
    /\ Forward(at, at') /\ AuthorsKept /\ Alone'
    /\ at' \in [Runs -> Labels] /\ live' \subseteq Runs
    /\ messages' \in [Sessions -> Seq(Messages)]
    /\ own' = [k \in Runs |-> own'[k]]
    /\ \A k \in Runs : \/ own'[k] = None
                       \/ own'[k] = <<own'[k][1]>> /\ own'[k][1] \in Seq(Messages)
    /\ \A q \in Sessions : SessionOK(q)'
    /\ \A k \in Runs : RunOK(k)'

\* A tab keeps at most one run that is not stopped, if none is started.
LEMMA AloneFrame ==
    ASSUME Alone, live' \subseteq live, tab' = tab
    PROVE  Alone'
  BY DEF Alone

\* Stopping the runs of a tab keeps what the runs and the tabs have, also when the
\* tab goes on with another conversation and when a file is removed.
LEMMA StopKeeps ==
    ASSUME HistoryInv, NEW s \in Sessions, Stop(s), UNCHANGED <<user, tab, sent, author>>,
           \A q \in Sessions \ {s} : conv'[q] = conv[q],
           \A k \in Runs : path'[k] = path[k] \/ (path'[k] = None /\ at[k] # "save")
    PROVE  Kept
  <1> USE DEF HistoryInv
  <1>1. /\ live' = live \ Of(s) /\ messages' = messages /\ own' = own
        /\ at' = [k \in Runs |-> IF tab[k] = s /\ at[k] \notin Undisturbed \cup {"none"}
                                 THEN "over" ELSE at[k]]
    BY DEF Stop
  <1>2. Forward(at, at')
    BY <1>1 DEF Forward, Asked, Replied
  <1>3. AuthorsKept
    BY DEF AuthorsKept
  <1>4. at' \in [Runs -> Labels] /\ live' \subseteq Runs /\ Alone'
    BY <1>1, AloneFrame DEF TypeOK, Labels
  <1>5. /\ messages' \in [Sessions -> Seq(Messages)]
        /\ own' = [k \in Runs |-> own'[k]]
        /\ \A k \in Runs : \/ own'[k] = None
                           \/ own'[k] = <<own'[k][1]>> /\ own'[k][1] \in Seq(Messages)
    BY <1>1 DEF TypeOK
  <1>6. \A q \in Sessions : SessionOK(q)'
    BY <1>1, <1>2, <1>3, SessionFrame
  <1>7. ASSUME NEW k \in Runs PROVE RunOK(k)'
    <2>1. CASE tab[k] = s /\ at[k] \notin Undisturbed \cup {"none"}
      <3>1. at'[k] = "over" /\ k \notin live' /\ at[k] # "none"
        BY <1>1, <2>1 DEF Of
      <3>2. own'[k] = None /\ path'[k] = None
        BY <1>1, <2>1 DEF RunOK, Undisturbed
      <3> QED
        BY <3>1, <3>2, RunEnds
    <2>2. CASE tab[k] = s /\ at[k] \in Undisturbed \cup {"none"}
      <3>1. at'[k] = at[k] /\ k \notin live' /\ (at[k] = "none" => k \notin live)
        BY <1>1, <2>2 DEF Of, RunOK
      <3> QED
        BY <1>1, <1>2, <1>3, <2>2, <3>1, RunFrame
    <2>3. CASE tab[k] # s
      <3>1. at'[k] = at[k] /\ (k \in live' <=> k \in live)
        BY <1>1, <2>3 DEF Of
      <3>2. k \in live => conv'[tab[k]] = conv[tab[k]]
        BY <2>3, TabIs DEF RunOK
      <3>3. k \notin live' => k \notin live
        BY <3>1
      <3> QED
        BY <1>1, <1>2, <1>3, <3>1, <3>2, <3>3, RunFrame
    <2> QED
      BY <2>1, <2>2, <2>3
  <1> QED
    BY <1>2, <1>3, <1>4, <1>5, <1>6, <1>7 DEF Kept

\* So does giving the tab another list, one written under its directory or empty:
\* a stopped run that is saving keeps the old one.
LEMMA SetKeeps ==
    ASSUME HistoryInv, NEW s \in Sessions, NEW h, StopAndSet(s, h),
           UNCHANGED <<tab, sent, author>>,
           \A q \in Sessions \ {s} : user'[q] = user[q] /\ conv'[q] = conv[q],
           \A k \in Runs : path'[k] = path[k] \/ (path'[k] = None /\ at[k] # "save"),
           Sound(h, at),
           IF LoggedIn(s)' THEN From(h, Dir(s)', author) ELSE h = <<>>
    PROVE  Kept
  <1> USE DEF HistoryInv
  <1>1. /\ live' = live \ Of(s) /\ messages' = [messages EXCEPT ![s] = h]
        /\ at' = [k \in Runs |-> IF tab[k] = s /\ at[k] \notin {"none", "save", "write", "close"}
                                 THEN "over" ELSE at[k]]
        /\ own' = [k \in Runs |-> IF tab[k] = s /\ at[k] \in {"save", "write"} /\ own[k] = None
                                  THEN <<messages[s]>> ELSE own[k]]
    BY DEF StopAndSet
  <1>2. Forward(at, at')
    BY <1>1 DEF Forward, Asked, Replied
  <1>3. AuthorsKept
    BY DEF AuthorsKept
  <1>4. at' \in [Runs -> Labels] /\ live' \subseteq Runs /\ Alone'
    BY <1>1, AloneFrame DEF TypeOK, Labels
  <1>5. messages' \in [Sessions -> Seq(Messages)] /\ messages'[s] = h
    BY <1>1 DEF TypeOK, Sound
  <1>6. /\ own' = [k \in Runs |-> own'[k]]
        /\ \A k \in Runs : \/ own'[k] = None
                           \/ own'[k] = <<own'[k][1]>> /\ own'[k][1] \in Seq(Messages)
    BY <1>1, Tagged DEF TypeOK
  <1>7. ASSUME NEW q \in Sessions PROVE SessionOK(q)'
    <2>1. CASE q = s
      <3>1. Sound(h, at')
        BY <1>2, SoundForward
      <3> QED
        BY <1>5, <2>1, <3>1 DEF SessionOK
    <2>2. CASE q # s
      BY <1>1, <1>2, <1>3, <2>2, SessionFrame DEF TypeOK
    <2> QED
      BY <2>1, <2>2
  <1>8. ASSUME NEW k \in Runs PROVE RunOK(k)'
    <2>1. CASE tab[k] = s /\ at[k] \notin {"none", "save", "write", "close"}
      <3>1. at'[k] = "over" /\ k \notin live' /\ at[k] # "none"
        BY <1>1, <2>1 DEF Of
      <3>2. own'[k] = None /\ path'[k] = None
        BY <1>1, <2>1 DEF RunOK
      <3> QED
        BY <3>1, <3>2, RunEnds
    <2>2. CASE tab[k] = s /\ at[k] \in {"save", "write"} /\ own[k] = None
      <3>1. /\ at'[k] = at[k] /\ k \notin live' /\ own'[k] = <<messages[s]>>
            /\ k \in Saving /\ ToSave(k) = messages[s]
        BY <1>1, <2>2 DEF Of, Saving, ToSave
      <3>2. own'[k] # None /\ own'[k][1] = messages[s]
        BY <3>1, Tagged
      <3>3. /\ Sound(messages[s], at') /\ From(messages[s], author'[k], author')
            /\ {Question(k), Answer(k)} \subseteq ToSet(messages[s])
        BY <1>2, <3>1, ToSaveIs, SoundForward
      <3>4. ~Attached(k)'
        BY <2>2, <3>1, <3>2 DEF Attached
      <3> QED
        BY <2>2, <3>1, <3>2, <3>3, <3>4 DEF RunOK, Undisturbed
    <2>3. CASE tab[k] = s /\ at[k] \in {"none", "save", "write", "close"}
               /\ ~(at[k] \in {"save", "write"} /\ own[k] = None)
      <3>1. at'[k] = at[k] /\ k \notin live' /\ own'[k] = own[k] /\ ~Attached(k)
        BY <1>1, <2>3 DEF Of, Attached
      <3>2. k \notin live \/ at[k] \in Undisturbed
        BY <2>3 DEF RunOK, Undisturbed
      <3> QED
        BY <1>2, <1>3, <3>1, <3>2, RunFrame
    <2>4. CASE tab[k] # s
      <3>1. at'[k] = at[k] /\ own'[k] = own[k] /\ (k \in live' <=> k \in live)
        BY <1>1, <2>4 DEF Of
      <3>2. at[k] # "none" => tab[k] \in Sessions \ {s}
        BY <2>4, TabIs
      <3>3. at[k] # "none" => /\ conv'[tab[k]] = conv[tab[k]] /\ user'[tab[k]] = user[tab[k]]
                              /\ messages'[tab[k]] = messages[tab[k]]
        BY <1>1, <3>2 DEF TypeOK
      <3>4. k \in live \/ Attached(k) => at[k] # "none"
        BY DEF RunOK, Attached
      <3> QED
        BY <1>2, <1>3, <3>1, <3>3, <3>4, RunFrame
    <2> QED
      BY <2>1, <2>2, <2>3, <2>4
  <1> QED
    BY <1>2, <1>3, <1>4, <1>5, <1>6, <1>7, <1>8 DEF Kept

\* Entering the chat and loading the page again.
LEMMA TabStep ==
    ASSUME HistoryInv, NEW s \in Sessions, (\E n \in Names : Login(s, n)) \/ Reload(s)
    PROVE  HistoryInv'
  <1>1. /\ StopAndSet(s, <<>>) /\ UNCHANGED <<tab, path, file, made, clock, sent, crashes, author>>
        /\ \E n \in Names \cup {None} : user' = [user EXCEPT ![s] = n]
        /\ \E c \in Ids \cup {None} : conv' = [conv EXCEPT ![s] = c]
    <2>1. ACTIVE \in Ids
      BY DEF Ids
    <2>2. CASE Reload(s)
      BY <2>2 DEF Reload, bounds
    <2>3. ASSUME NEW n \in Names, Login(s, n)
          PROVE  /\ StopAndSet(s, <<>>)
                 /\ UNCHANGED <<tab, path, file, made, clock, sent, crashes, author>>
                 /\ user' = [user EXCEPT ![s] = n]
                 /\ \E c \in Ids \cup {None} : conv' = [conv EXCEPT ![s] = c]
      BY <2>1, <2>3 DEF Login, bounds
    <2> QED
      BY <2>2, <2>3
  <1>2. /\ user' \in [Sessions -> Names \cup {None}] /\ conv' \in [Sessions -> Ids \cup {None}]
        /\ \A q \in Sessions \ {s} : user'[q] = user[q] /\ conv'[q] = conv[q]
    BY <1>1 DEF HistoryInv, TypeOK
  <1>3. Kept
    BY <1>1, <1>2, SetKeeps, EmptySound
  <1>4. TypeOK'
    BY <1>1, <1>2, <1>3 DEF HistoryInv, TypeOK, Kept
  <1>5. \A f \in Keys : FileOK(f)'
    BY <1>1, <1>3, FileFrame DEF HistoryInv, Kept
  <1>6. TruncatedIsFilled'
    BY <1>1, FilledFrame DEF HistoryInv, StopAndSet
  <1> QED
    BY <1>3, <1>4, <1>5, <1>6 DEF HistoryInv, Kept

\* A conversation of the list that is opened has only what its owner wrote.
LEMMA LoadIs ==
    ASSUME HistoryInv, NEW s \in Sessions, LoggedIn(s), NEW c \in Ids
    PROVE  Sound(Load(s, c), at) /\ From(Load(s, c), Dir(s), author)
  <1>1. CASE Path(s, c) # None /\ file[Path(s, c)].is = "history"
    <2>1. Path(s, c) \in Keys /\ Path(s, c)[1] = Dir(s)
      BY <1>1, PathIs DEF HistoryInv
    <2> QED
      BY <1>1, <2>1 DEF HistoryInv, FileOK, Load
  <1>2. CASE ~(Path(s, c) # None /\ file[Path(s, c)].is = "history")
    BY <1>2, EmptySound DEF Load
  <1> QED
    BY <1>1, <1>2

\* Another conversation, a new one, and any other interaction.
LEMMA SelectStep ==
    ASSUME HistoryInv, NEW s \in Sessions,
           (\E c \in Ids \cup {None} : Select(s, c)) \/ Rerun(s)
    PROVE  HistoryInv'
  <1>1. /\ UNCHANGED <<user, tab, path, file, made, clock, sent, crashes, author>>
        /\ \E c \in Ids \cup {None} : conv' = [conv EXCEPT ![s] = c]
    <2>1. conv[s] \in Ids \cup {None} /\ conv = [conv EXCEPT ![s] = conv[s]]
      BY DEF HistoryInv, TypeOK
    <2> QED
      BY <2>1 DEF Select, Rerun, bounds, Listed
  <1>2. \/ Stop(s)
        \/ \E h : StopAndSet(s, h) /\ LoggedIn(s) /\ Sound(h, at) /\ From(h, Dir(s), author)
    BY LoadIs, EmptySound DEF Select, Rerun, Listed
  <1>3. /\ conv' \in [Sessions -> Ids \cup {None}] /\ LoggedIn(s)' = LoggedIn(s) /\ Dir(s)' = Dir(s)
        /\ \A q \in Sessions \ {s} : conv'[q] = conv[q]
    BY <1>1 DEF HistoryInv, TypeOK, LoggedIn, Dir
  <1>4. Kept
    <2>1. CASE Stop(s)
      BY <1>1, <1>3, <2>1, StopKeeps
    <2>2. ASSUME NEW h, StopAndSet(s, h), LoggedIn(s), Sound(h, at), From(h, Dir(s), author)
          PROVE  Kept
      BY <1>1, <1>3, <2>2, SetKeeps
    <2> QED
      BY <1>2, <2>1, <2>2
  <1>5. TypeOK'
    BY <1>1, <1>3, <1>4 DEF HistoryInv, TypeOK, Kept
  <1>6. \A f \in Keys : FileOK(f)'
    BY <1>1, <1>4, FileFrame DEF HistoryInv, Kept
  <1>7. TruncatedIsFilled'
    <2>1. \A k \in Runs : at[k] \in {"write", "close"} => at'[k] = at[k]
      BY <1>2 DEF Stop, StopAndSet, Undisturbed
    <2> QED
      BY <1>1, <2>1, FilledFrame DEF HistoryInv
  <1> QED
    BY <1>4, <1>5, <1>6, <1>7 DEF HistoryInv, Kept

\* A conversation is removed with its file: a run that has the file open writes to
\* nowhere.
LEMMA ClearStep ==
    ASSUME HistoryInv, NEW s \in Sessions, Clear(s)
    PROVE  HistoryInv'
  <1> DEFINE p == Path(s, conv[s])
  <1>1. LoggedIn(s) /\ conv[s] \in Ids /\ p # None
    BY DEF Clear, HistoryInv, TypeOK
  <1>2. p \in Keys
    BY <1>1, PathIs DEF HistoryInv
  <1>3. /\ UNCHANGED <<user, tab, made, clock, sent, crashes, author>>
        /\ file' = [file EXCEPT ![p] = Absent]
        /\ path' = [k \in Runs |-> IF path[k] = p /\ at[k] \in {"write", "close"}
                                   THEN None ELSE path[k]]
        /\ \E c \in Ids \cup {None} : conv' = [conv EXCEPT ![s] = c]
        /\ Stop(s) \/ StopAndSet(s, <<>>)
    <2>1. conv = [conv EXCEPT ![s] = conv[s]]
      BY DEF HistoryInv, TypeOK
    <2> QED
      BY <1>1, <2>1 DEF Clear, bounds
  <1> HIDE DEF p
  <1>4. /\ conv' \in [Sessions -> Ids \cup {None}] /\ LoggedIn(s)' = LoggedIn(s) /\ Dir(s)' = Dir(s)
        /\ \A q \in Sessions \ {s} : user'[q] = user[q] /\ conv'[q] = conv[q]
    BY <1>3 DEF HistoryInv, TypeOK, LoggedIn, Dir
  <1>5. /\ path' \in [Runs -> Keys \cup {None}]
        /\ \A k \in Runs : path'[k] = path[k] \/ (path'[k] = None /\ at[k] # "save")
    BY <1>3 DEF HistoryInv, TypeOK
  <1>6. Kept
    BY <1>1, <1>3, <1>4, <1>5, StopKeeps, SetKeeps, EmptySound
  <1>7. /\ file' = [f \in Keys |-> file'[f]]
        /\ \A f \in Keys : file'[f] = Absent \/ (file'[f] = file[f] /\ f # p)
    BY <1>2, <1>3 DEF HistoryInv, TypeOK
  <1>8. TypeOK'
    BY <1>3, <1>4, <1>5, <1>6, <1>7 DEF HistoryInv, TypeOK, Kept
  <1>9. \A f \in Keys : FileOK(f)'
    BY <1>6, <1>7, FileFrame, Contents DEF HistoryInv, Kept
  <1>10. TruncatedIsFilled'
    <2> SUFFICES ASSUME crashes' = 0, NEW f \in Keys, file'[f] = Empty
                 PROVE  \E k \in Runs : path'[k] = f /\ at'[k] \in {"write", "close"}
      BY DEF TruncatedIsFilled
    <2>1. f # p /\ file[f] = Empty
      BY <1>7 DEF Absent, Empty
    <2>2. PICK k \in Runs : path[k] = f /\ at[k] \in {"write", "close"}
      BY <1>3, <2>1 DEF HistoryInv, TruncatedIsFilled
    <2>3. at'[k] = at[k]
      BY <1>3, <2>2 DEF Stop, StopAndSet, Undisturbed
    <2> QED
      BY <1>3, <2>1, <2>2, <2>3
  <1> QED
    BY <1>6, <1>8, <1>9, <1>10 DEF HistoryInv, Kept

\* A prompt is a new run, which no history knows.
LEMMA PromptStep ==
    ASSUME HistoryInv, NEW s \in Sessions, NEW t \in Texts, Prompt(s, t)
    PROVE  HistoryInv'
  <1>1. PICK k \in Runs : k = sent + 1
    BY ChatAssumption DEF Prompt, HistoryInv, TypeOK, Runs
  <1>2. /\ LoggedIn(s) /\ sent \in Nat /\ sent' = k /\ k \in 0..MaxPrompts
        /\ at[k] = "none" /\ tab[k] = None
    <2>1. LoggedIn(s) /\ sent \in Nat /\ sent' = k /\ k \in 0..MaxPrompts
      BY <1>1, ChatAssumption DEF Prompt, HistoryInv, TypeOK, Runs
    <2>2. RunOK(k) /\ k > sent
      BY <1>1, <2>1 DEF HistoryInv
    <2> QED
      BY <2>1, <2>2 DEF RunOK
  <1>3. /\ tab' = [tab EXCEPT ![k] = s] /\ author' = [author EXCEPT ![k] = Dir(s)]
        /\ live' = (live \ Of(s)) \cup {k}
        /\ at' = [j \in Runs |-> IF j = k THEN "sent"
                                 ELSE IF tab[j] = s /\ at[j] \notin Undisturbed THEN "over"
                                 ELSE at[j]]
        /\ UNCHANGED <<user, messages, path, own, file, made, crashes>>
        /\ \/ conv[s] # None /\ conv' = conv /\ clock' = clock
           \/ clock' \in clock..MaxTime /\ conv' = [conv EXCEPT ![s] = <<clock', t>>]
    BY <1>1 DEF Prompt
  <1>4. Dir(s) \in Dirs \cup {NoDir} /\ Dir(s)' = Dir(s)
    <2>1. ACTIVE \in Ids
      BY DEF Ids
    <2> QED
      BY <1>2, <1>3, <2>1, PathIs DEF HistoryInv, Dir
  <1>5. /\ conv' \in [Sessions -> Ids \cup {None}] /\ conv'[s] \in Ids
        /\ \A q \in Sessions \ {s} : conv'[q] = conv[q]
        /\ clock' \in 0..MaxTime
    <2>1. clock' \in 0..MaxTime /\ <<clock', t>> \in Ids
      <3>1. clock' \in 0..MaxTime
        BY <1>3, ChatAssumption DEF HistoryInv, TypeOK
      <3> QED
        BY <3>1 DEF Ids
    <2> QED
      BY <1>3, <2>1 DEF HistoryInv, TypeOK
  <1>6. Forward(at, at') /\ AuthorsKept
    BY <1>2, <1>3 DEF HistoryInv, TypeOK, Forward, AuthorsKept, Asked, Replied
  <1>7. TypeOK'
    <2>1. /\ tab' \in [Runs -> Sessions \cup {None}] /\ author' \in [Runs -> Dirs \cup {NoDir}]
          /\ at' \in [Runs -> Labels] /\ live' \subseteq Runs
      BY <1>2, <1>3, <1>4 DEF HistoryInv, TypeOK, Labels
    <2> QED
      BY <1>2, <1>3, <1>5, <2>1 DEF HistoryInv, TypeOK
  <1>8. \A q \in Sessions : SessionOK(q)'
    BY <1>3, <1>6, SessionFrame DEF HistoryInv
  <1>9. \A f \in Keys : FileOK(f)'
    BY <1>3, <1>6, FileFrame DEF HistoryInv
  <1>10. Alone'
    <2>1. \A j \in live' : j # k => j \in live /\ tab[j] # s /\ tab'[j] = tab[j]
      BY <1>3 DEF Of, HistoryInv, TypeOK
    <2>2. tab'[k] = s
      BY <1>2, <1>3 DEF HistoryInv, TypeOK
    <2> QED
      BY <2>1, <2>2 DEF Alone, HistoryInv
  <1>11. RunOK(k)'
    <2>1. at'[k] = "sent" /\ tab'[k] = s /\ author'[k] = Dir(s) /\ k \in live'
      BY <1>2, <1>3 DEF HistoryInv, TypeOK
    <2>2. own'[k] = None /\ path'[k] = None
      BY <1>2, <1>3 DEF HistoryInv, RunOK
    <2>3. s # None /\ ~(k > sent') /\ LoggedIn(s)'
      <3>1. s # None
        BY ChatAssumption
      <3>2. user' = user
        BY <1>3
      <3>3. LoggedIn(s)'
        BY <1>2, <3>2 DEF LoggedIn
      <3>4. ~(k > sent')
        BY <1>2
      <3> QED
        BY <3>1, <3>3, <3>4
    <2> QED
      BY <1>4, <1>5, <2>1, <2>2, <2>3 DEF RunOK, Asked, Replied, Attached
  <1>12. ASSUME NEW j \in Runs \ {k} PROVE RunOK(j)'
    <2>1. RunOK(j) /\ j \in Runs
      BY DEF HistoryInv
    <2>2. tab'[j] = tab[j] /\ own'[j] = own[j] /\ path'[j] = path[j] /\ ((j > sent') <=> (j > sent))
      BY <1>1, <1>2, <1>3 DEF HistoryInv, TypeOK, Runs
    <2>3. CASE tab[j] = s /\ at[j] \notin Undisturbed
      <3>1. at[j] # "none" /\ at'[j] = "over" /\ j \notin live'
        BY <1>3, <2>1, <2>3, ChatAssumption DEF RunOK, Of
      <3>2. own'[j] = None /\ path'[j] = None
        BY <2>1, <2>2, <2>3 DEF RunOK, Undisturbed
      <3> QED
        BY <2>1, <2>2, <3>1, <3>2, RunEnds
    <2>4. CASE tab[j] = s /\ at[j] \in Undisturbed
      <3>1. at'[j] = at[j] /\ j \notin live'
        BY <1>3, <2>4 DEF Of
      <3> QED
        BY <1>3, <1>6, <2>1, <2>2, <2>4, <3>1, RunFrame DEF HistoryInv
    <2>5. CASE tab[j] # s
      <3>1. at'[j] = at[j] /\ (j \in live' <=> j \in live)
        BY <1>3, <2>5 DEF Of
      <3>2. j \in live => conv'[tab[j]] = conv[tab[j]]
        BY <1>5, <2>1, <2>5, TabIs DEF RunOK, HistoryInv
      <3> QED
        BY <1>3, <1>6, <2>1, <2>2, <3>1, <3>2, RunFrame DEF HistoryInv
    <2> QED
      BY <2>3, <2>4, <2>5
  <1>13. TruncatedIsFilled'
    <2>1. \A j \in Runs : at[j] \in {"write", "close"} => at'[j] = at[j]
      BY <1>2, <1>3 DEF Undisturbed
    <2> QED
      BY <1>3, <2>1, FilledFrame DEF HistoryInv
  <1> QED
    BY <1>7, <1>8, <1>9, <1>10, <1>11, <1>12, <1>13 DEF HistoryInv

\* The server ends and is started again, or nothing happens.
LEMMA ServerStep ==
    ASSUME HistoryInv, Crash \/ UNCHANGED vars
    PROVE  HistoryInv'
  <1>1. CASE Crash
    <2>1. /\ crashes' = crashes + 1 /\ crashes < MaxCrashes
          /\ user' = [q \in Sessions |-> None] /\ conv' = [q \in Sessions |-> None]
          /\ messages' = [q \in Sessions |-> <<>>]
          /\ at' = [k \in Runs |-> IF k <= sent THEN "over" ELSE "none"]
          /\ live' = {}
          /\ path' = [k \in Runs |-> None] /\ own' = [k \in Runs |-> None]
          /\ UNCHANGED <<tab, file, made, clock, sent, author>>
      BY <1>1 DEF Crash
    <2>2. \A k \in Runs : (k <= sent) <=> (at[k] # "none")
      BY DEF HistoryInv, RunOK, TypeOK, Runs
    <2>3. Forward(at, at') /\ AuthorsKept
      BY <2>1, <2>2 DEF Forward, AuthorsKept, Asked, Replied
    <2>4. TypeOK'
      BY <2>1, EmptySound, ChatAssumption DEF HistoryInv, TypeOK, Labels
    <2>5. \A q \in Sessions : SessionOK(q)'
      BY <2>1, EmptySound DEF SessionOK, LoggedIn
    <2>6. \A k \in Runs : RunOK(k)'
      BY <2>1, <2>2 DEF HistoryInv, RunOK, Attached
    <2>7. \A f \in Keys : FileOK(f)'
      BY <2>1, <2>3, FileFrame DEF HistoryInv
    <2>8. Alone' /\ TruncatedIsFilled'
      BY <2>1 DEF Alone, TruncatedIsFilled, HistoryInv, TypeOK
    <2> QED
      BY <2>4, <2>5, <2>6, <2>7, <2>8 DEF HistoryInv
  <1>2. CASE UNCHANGED vars
    <2>1. UNCHANGED <<user, conv, messages, at, live, tab, path, own, file, made, clock, sent,
                      crashes, author>>
      BY <1>2 DEF vars
    <2>2. TypeOK'
      BY <2>1 DEF HistoryInv, TypeOK
    <2>3. /\ \A q \in Sessions : SessionOK(q)'
          /\ \A k \in Runs : RunOK(k)'
          /\ \A f \in Keys : FileOK(f)'
      BY <2>1 DEF HistoryInv, SessionOK, RunOK, FileOK, LoggedIn, Dir, Attached
    <2>4. Alone' /\ TruncatedIsFilled'
      BY <2>1 DEF HistoryInv, Alone, TruncatedIsFilled
    <2> QED
      BY <2>2, <2>3, <2>4 DEF HistoryInv
  <1> QED
    BY <1>1, <1>2

-----------------------------------------------------------------------------
(* The run of a prompt.                                                    *)

\* A step of one run leaves the others where they are.
LEMMA OthersKept ==
    ASSUME HistoryInv, NEW k \in Runs, NEW l \in Labels,
           at' = [at EXCEPT ![k] = l], Forward(at, at'), live' \in {live, live \ {k}},
           UNCHANGED <<user, conv, tab, sent, author>>,
           \A j \in Runs \ {k} : own'[j] = own[j] /\ path'[j] = path[j],
           \A q \in Sessions : ToSet(messages[q]) \subseteq ToSet(messages'[q])
    PROVE  /\ AuthorsKept /\ Alone' /\ at' \in [Runs -> Labels] /\ live' \subseteq Runs
           /\ \A j \in Runs \ {k} : RunOK(j)'
  <1>1. AuthorsKept /\ Alone' /\ at' \in [Runs -> Labels] /\ live' \subseteq Runs
    BY AloneFrame DEF AuthorsKept, HistoryInv, TypeOK
  <1>2. ASSUME NEW j \in Runs \ {k} PROVE RunOK(j)'
    <2>1. RunOK(j) /\ at'[j] = at[j] /\ (j \in live' <=> j \in live)
      BY DEF HistoryInv, TypeOK
    <2>2. Attached(j) => tab[j] \in Sessions
      BY <2>1, TabIs DEF HistoryInv, Attached
    <2> QED
      BY <1>1, <2>1, <2>2, RunFrame DEF HistoryInv
  <1> QED
    BY <1>1, <1>2

\* A live run goes on to the place before an append, or to the wait for the answer.
LEMMA FetchStep ==
    ASSUME HistoryInv, NEW k \in Runs, FetchForQuestion(k) \/ FetchForAnswer(k)
    PROVE  HistoryInv'
  <1>1. /\ \/ at[k] = "sent" /\ at' = [at EXCEPT ![k] = "append"]
           \/ at[k] = "asking" /\ at' = [at EXCEPT ![k] = "answer"]
        /\ k \in live
        /\ UNCHANGED <<user, conv, messages, live, tab, path, own, file, made, clock, sent,
                       crashes, author>>
    <2>1. at[k] \in {"sent", "asking"} => k \in live
      BY DEF HistoryInv, RunOK, Undisturbed
    <2>2. CASE FetchForQuestion(k)
      BY <2>1, <2>2 DEF FetchForQuestion, Goto, bounds
    <2>3. CASE FetchForAnswer(k)
      BY <2>1, <2>3 DEF FetchForAnswer, Goto, bounds
    <2> QED
      BY <2>2, <2>3
  <1>2. Forward(at, at') /\ "append" \in Labels /\ "answer" \in Labels
    BY <1>1 DEF Forward, Asked, Replied, HistoryInv, TypeOK, Labels, Undisturbed
  <1>3. /\ AuthorsKept /\ Alone' /\ at' \in [Runs -> Labels] /\ live' \subseteq Runs
        /\ \A j \in Runs \ {k} : RunOK(j)'
    BY <1>1, <1>2, OthersKept
  <1>4. RunOK(k)'
    <2>1. RunOK(k) /\ Attached(k) /\ Attached(k)' /\ at'[k] \in {"append", "answer"}
          /\ (at'[k] = "answer" => at[k] = "asking")
      BY <1>1 DEF HistoryInv, TypeOK, Attached
    <2> QED
      BY <1>1, <2>1 DEF RunOK, Undisturbed, Asked, Replied, LoggedIn, Dir
  <1>5. TypeOK'
    BY <1>1, <1>3 DEF HistoryInv, TypeOK
  <1>6. /\ \A q \in Sessions : SessionOK(q)'
        /\ \A f \in Keys : FileOK(f)'
    BY <1>1, <1>2, <1>3, SessionFrame, FileFrame DEF HistoryInv
  <1>7. TruncatedIsFilled'
    BY <1>1, FilledFrame DEF HistoryInv, TypeOK
  <1> QED
    BY <1>3, <1>4, <1>5, <1>6, <1>7 DEF HistoryInv

\* A run appends its question or its answer to the list of its session: stopped or
\* not, that list is still the one it was made for.
LEMMA AppendStep ==
    ASSUME HistoryInv, NEW k \in Runs, AppendQuestion(k) \/ AppendAnswer(k)
    PROVE  HistoryInv'
  <1>1. PICK m \in Messages, l \in Labels :
          /\ at' = [at EXCEPT ![k] = l]
          /\ messages' = [messages EXCEPT ![tab[k]] = Append(messages[tab[k]], m)]
          /\ \/ m = Question(k) /\ at[k] = "append" /\ l = (IF k \in live THEN "asking" ELSE "over")
             \/ m = Answer(k) /\ at[k] = "answer" /\ l = (IF k \in live THEN "answered" ELSE "over")
    <2>1. Question(k) \in Messages /\ Answer(k) \in Messages
      BY MessageIs
    <2>2. {"asking", "answered", "over"} \subseteq Labels
      BY DEF Labels
    <2>3. CASE AppendQuestion(k)
      BY <2>1, <2>2, <2>3 DEF AppendQuestion, AppendMessage, Goto
    <2>4. CASE AppendAnswer(k)
      BY <2>1, <2>2, <2>4 DEF AppendAnswer, AppendMessage, Goto
    <2> QED
      BY <2>3, <2>4
  <1>2. UNCHANGED <<user, conv, live, tab, path, own, file, made, clock, sent, crashes, author>>
    BY DEF AppendQuestion, AppendAnswer, bounds
  <1>3. RunOK(k) /\ at'[k] = l /\ Attached(k) /\ at[k] \in Undisturbed
    BY <1>1 DEF HistoryInv, TypeOK, Attached, Undisturbed
  <1>4. /\ tab[k] \in Sessions /\ LoggedIn(tab[k]) /\ author[k] = Dir(tab[k])
        /\ SessionOK(tab[k]) /\ messages[tab[k]] \in Seq(Messages)
    <2>1. tab[k] \in Sessions
      BY <1>3, TabIs DEF HistoryInv, Attached
    <2> QED
      BY <1>3, <2>1 DEF HistoryInv, RunOK, TypeOK
  <1>5. Forward(at, at')
    BY <1>1 DEF Forward, Asked, Replied, HistoryInv, TypeOK
  <1> DEFINE h == messages[tab[k]]
             g == Append(h, m)
  <1>6. m.prompt = k /\ (m.role = "user" <=> m = Question(k))
    BY <1>1, MessageIs
  <1>7. Sound(g, at') /\ ToSet(h) \subseteq ToSet(g) /\ m \in ToSet(g)
    <2>1. IF m.role = "user" THEN ~Asked(at[m.prompt]) /\ Asked(at'[m.prompt])
          ELSE /\ ~Replied(at[m.prompt]) /\ Replied(at'[m.prompt])
               /\ Question(m.prompt) \in ToSet(h)
      <3>1. CASE m = Question(k)
        BY <1>1, <1>3, <1>6, <3>1, MessageIs DEF Asked
      <3>2. CASE m = Answer(k)
        <4>1. at[k] = "answer" /\ at'[k] \in {"answered", "over"} /\ m.role # "user"
          BY <1>1, <1>3, <3>2, MessageIs
        <4>2. Question(k) \in ToSet(h)
          BY <1>3, <4>1 DEF RunOK, Asked
        <4> QED
          BY <1>6, <4>1, <4>2 DEF Replied
      <3> QED
        BY <1>1, <3>1, <3>2
    <2>2. Sound(h, at)
      BY <1>4 DEF SessionOK
    <2> QED
      BY <1>5, <2>1, <2>2, AppendSound
  <1>8. From(g, Dir(tab[k]), author)
    BY <1>4, <1>6, AppendFrom DEF SessionOK
  <1>9. /\ messages' \in [Sessions -> Seq(Messages)] /\ messages'[tab[k]] = g
        /\ \A q \in Sessions : q # tab[k] => messages'[q] = messages[q]
    BY <1>1, <1>4 DEF HistoryInv, TypeOK
  <1> HIDE DEF g, h
  <1>10. \A q \in Sessions : ToSet(messages[q]) \subseteq ToSet(messages'[q])
    BY <1>7, <1>9 DEF h
  <1>11. /\ AuthorsKept /\ Alone' /\ at' \in [Runs -> Labels] /\ live' \subseteq Runs
         /\ \A j \in Runs \ {k} : RunOK(j)'
    BY <1>1, <1>2, <1>5, <1>10, OthersKept
  <1>12. RunOK(k)'
    <2>1. own[k] = None /\ path[k] = None /\ at[k] # "none"
      BY <1>1, <1>3 DEF RunOK
    <2>2. CASE k \notin live
      <3>1. at'[k] = "over"
        BY <1>1, <1>3, <2>2
      <3> QED
        BY <1>2, <1>3, <2>1, <2>2, <3>1, RunEnds
    <2>3. CASE k \in live
      <3>1. at'[k] \in {"asking", "answered"} /\ Attached(k)'
        BY <1>1, <1>3, <2>3 DEF Attached
      <3>2. /\ Question(k) \in ToSet(messages'[tab[k]])
            /\ at'[k] = "answered" => Answer(k) \in ToSet(messages'[tab[k]])
        BY <1>1, <1>3, <1>7, <1>9, <2>3 DEF RunOK, Asked, h
      <3> QED
        BY <1>2, <1>3, <2>1, <2>3, <3>1, <3>2 DEF RunOK, Asked, Replied, LoggedIn, Dir
    <2> QED
      BY <2>2, <2>3
  <1>13. TypeOK'
    BY <1>2, <1>9, <1>11 DEF HistoryInv, TypeOK
  <1>14. ASSUME NEW q \in Sessions PROVE SessionOK(q)'
    <2>1. CASE q = tab[k]
      BY <1>2, <1>4, <1>7, <1>8, <1>9, <2>1 DEF SessionOK, LoggedIn, Dir
    <2>2. CASE q # tab[k]
      BY <1>2, <1>5, <1>9, <1>11, <2>2, SessionFrame DEF HistoryInv
    <2> QED
      BY <2>1, <2>2
  <1>15. \A f \in Keys : FileOK(f)'
    BY <1>2, <1>5, <1>11, FileFrame DEF HistoryInv
  <1>16. TruncatedIsFilled'
    BY <1>1, <1>2, FilledFrame DEF HistoryInv, TypeOK
  <1> QED
    BY <1>11, <1>12, <1>13, <1>14, <1>15, <1>16 DEF HistoryInv

\* A run that has answered computes the path of its file.
LEMMA PathStep ==
    ASSUME HistoryInv, NEW k \in Runs, FetchForSave(k)
    PROVE  HistoryInv'
  <1> DEFINE p == Path(tab[k], conv[tab[k]])
  <1>1. RunOK(k) /\ at[k] = "answered" /\ k \in live /\ own[k] = None /\ Attached(k)
    BY DEF FetchForSave, HistoryInv, RunOK, Undisturbed, Attached
  <1>2. tab[k] \in Sessions /\ LoggedIn(tab[k]) /\ author[k] = Dir(tab[k]) /\ conv[tab[k]] \in Ids
    BY <1>1, TabIs DEF HistoryInv, RunOK
  <1>3. p = None \/ (p \in Keys /\ p[1] = author[k])
    BY <1>2, PathIs DEF HistoryInv
  <1>4. /\ path' = [path EXCEPT ![k] = p]
        /\ UNCHANGED <<user, conv, messages, tab, own, file, made, clock, sent, crashes, author>>
        /\ IF p = None THEN at' = [at EXCEPT ![k] = "over"] /\ live' = live \ {k}
           ELSE at' = [at EXCEPT ![k] = "save"] /\ live' = live
    BY <1>1 DEF FetchForSave, Over, Goto, bounds
  <1> HIDE DEF p
  <1>5. PICK l \in Labels : at' = [at EXCEPT ![k] = l] /\ l \in {"save", "over"}
    BY <1>4 DEF Labels, Undisturbed
  <1>6. Forward(at, at')
    BY <1>5 DEF Forward, Asked, Replied, HistoryInv, TypeOK
  <1>7. path' \in [Runs -> Keys \cup {None}] /\ path'[k] = p /\ \A j \in Runs \ {k} : path'[j] = path[j]
    BY <1>3, <1>4 DEF HistoryInv, TypeOK
  <1>8. /\ AuthorsKept /\ Alone' /\ at' \in [Runs -> Labels] /\ live' \subseteq Runs
        /\ \A j \in Runs \ {k} : RunOK(j)'
    BY <1>4, <1>5, <1>6, <1>7, OthersKept
  <1>9. RunOK(k)'
    <2>1. CASE p = None
      <3>1. at'[k] = "over" /\ k \notin live' /\ path'[k] = None /\ own'[k] = None
        BY <1>1, <1>4, <1>7, <2>1 DEF HistoryInv, TypeOK
      <3> QED
        BY <1>1, <1>4, <3>1, RunEnds
    <2>2. CASE p # None
      <3>1. at'[k] = "save" /\ k \in live' /\ Attached(k)'
        BY <1>1, <1>4, <2>2 DEF HistoryInv, TypeOK, Attached
      <3>2. {Question(k), Answer(k)} \subseteq ToSet(messages[tab[k]])
        BY <1>1 DEF RunOK, Asked, Replied
      <3> QED
        BY <1>1, <1>2, <1>3, <1>4, <1>7, <2>2, <3>1, <3>2 DEF RunOK, LoggedIn, Dir
    <2> QED
      BY <2>1, <2>2
  <1>10. TypeOK'
    BY <1>4, <1>7, <1>8 DEF HistoryInv, TypeOK
  <1>11. /\ \A q \in Sessions : SessionOK(q)'
         /\ \A f \in Keys : FileOK(f)'
    BY <1>4, <1>6, <1>8, SessionFrame, FileFrame DEF HistoryInv
  <1>12. TruncatedIsFilled'
    <2>1. \A j \in Runs : at[j] \in {"write", "close"} => j # k /\ at'[j] = at[j]
      BY <1>1, <1>5 DEF HistoryInv, TypeOK
    <2> QED
      BY <1>4, <1>7, <2>1, FilledFrame DEF HistoryInv
  <1> QED
    BY <1>8, <1>9, <1>10, <1>11, <1>12 DEF HistoryInv

\* The file of a run is truncated: the run is about to write it.
LEMMA OpenStep ==
    ASSUME HistoryInv, NEW k \in Runs, OpenFile(k)
    PROVE  HistoryInv'
  <1>1. /\ at[k] = "save" /\ at' = [at EXCEPT ![k] = "write"]
        /\ file' = [file EXCEPT ![path[k]] = Empty] /\ made' = made \cup {path[k]}
        /\ UNCHANGED <<user, conv, messages, live, tab, path, own, clock, sent, crashes, author>>
    BY DEF OpenFile, bounds
  <1>2. RunOK(k) /\ path[k] \in Keys
    BY <1>1 DEF HistoryInv, RunOK, TypeOK
  <1>3. Forward(at, at') /\ "write" \in Labels
    BY <1>1 DEF Forward, Asked, Replied, HistoryInv, TypeOK, Labels, Undisturbed
  <1>4. /\ AuthorsKept /\ Alone' /\ at' \in [Runs -> Labels] /\ live' \subseteq Runs
        /\ \A j \in Runs \ {k} : RunOK(j)'
    BY <1>1, <1>3, OthersKept
  <1>5. at'[k] = "write" /\ \A j \in Runs \ {k} : at'[j] = at[j]
    BY <1>1 DEF HistoryInv, TypeOK
  <1>6. RunOK(k)'
    <2>1. Attached(k)' <=> Attached(k)
      BY <1>1, <1>5 DEF Attached
    <2>2. own[k] # None => Sound(own[k][1], at')
      BY <1>2, <1>3, SoundForward DEF RunOK
    <2> QED
      BY <1>1, <1>2, <1>5, <2>1, <2>2 DEF RunOK, Asked, Replied, LoggedIn, Dir, Undisturbed
  <1>7. /\ file' = [f \in Keys |-> file'[f]] /\ file'[path[k]] = Empty
        /\ \A f \in Keys : f # path[k] => file'[f] = file[f]
    BY <1>1, <1>2 DEF HistoryInv, TypeOK
  <1>8. TypeOK'
    BY <1>1, <1>2, <1>4, <1>7 DEF HistoryInv, TypeOK
  <1>9. /\ \A q \in Sessions : SessionOK(q)'
        /\ \A f \in Keys : FileOK(f)'
    BY <1>1, <1>3, <1>4, <1>7, SessionFrame, FileFrame, Contents DEF HistoryInv
  <1>10. TruncatedIsFilled'
    BY <1>1, <1>5, <1>7 DEF HistoryInv, TruncatedIsFilled
  <1> QED
    BY <1>4, <1>6, <1>8, <1>9, <1>10 DEF HistoryInv

\* The list becomes text.
LEMMA DumpStep ==
    ASSUME HistoryInv, NEW k \in Runs, Dump(k)
    PROVE  HistoryInv'
  <1>1. /\ at[k] = "write" /\ at' = [at EXCEPT ![k] = "close"]
        /\ own' = [own EXCEPT ![k] = IF own[k] = None THEN <<messages[tab[k]]>> ELSE own[k]]
        /\ UNCHANGED <<user, conv, messages, live, tab, path, file, made, clock, sent, crashes, author>>
    BY DEF Dump, bounds
  <1>2. RunOK(k) /\ k \in Saving
    BY <1>1 DEF HistoryInv, Saving
  <1>3. Forward(at, at') /\ "close" \in Labels
    BY <1>1 DEF Forward, Asked, Replied, HistoryInv, TypeOK, Labels, Undisturbed
  <1>4. own'[k] = <<ToSave(k)>> /\ \A j \in Runs \ {k} : own'[j] = own[j]
    BY <1>1 DEF HistoryInv, TypeOK, ToSave
  <1>5. own'[k] # None /\ own'[k][1] = ToSave(k)
    BY <1>4, Tagged
  <1>6. /\ Sound(ToSave(k), at') /\ From(ToSave(k), author[k], author)
        /\ {Question(k), Answer(k)} \subseteq ToSet(ToSave(k))
    BY <1>2, <1>3, ToSaveIs, SoundForward
  <1>7. /\ AuthorsKept /\ Alone' /\ at' \in [Runs -> Labels] /\ live' \subseteq Runs
        /\ \A j \in Runs \ {k} : RunOK(j)'
    BY <1>1, <1>3, <1>4, OthersKept
  <1>8. at'[k] = "close" /\ \A j \in Runs \ {k} : at'[j] = at[j]
    BY <1>1 DEF HistoryInv, TypeOK
  <1>9. RunOK(k)'
    <2>1. ~Attached(k)'
      BY <1>8 DEF Attached
    <2> QED
      BY <1>1, <1>2, <1>5, <1>6, <1>8, <2>1 DEF RunOK, LoggedIn, Dir, Undisturbed
  <1>10. TypeOK'
    <2>1. own' = [j \in Runs |-> own'[j]] /\ ToSave(k) \in Seq(Messages)
      BY <1>1, <1>6 DEF HistoryInv, TypeOK, Sound
    <2>2. \A j \in Runs : \/ own'[j] = None
                          \/ own'[j] = <<own'[j][1]>> /\ own'[j][1] \in Seq(Messages)
      BY <1>4, <1>5, <2>1 DEF HistoryInv, TypeOK
    <2> QED
      BY <1>1, <1>7, <2>1, <2>2 DEF HistoryInv, TypeOK
  <1>11. /\ \A q \in Sessions : SessionOK(q)'
         /\ \A f \in Keys : FileOK(f)'
    BY <1>1, <1>3, <1>7, SessionFrame, FileFrame DEF HistoryInv
  <1>12. TruncatedIsFilled'
    BY <1>1, <1>8, FilledFrame DEF HistoryInv
  <1> QED
    BY <1>7, <1>9, <1>10, <1>11, <1>12 DEF HistoryInv

\* The text is written out, to a file that others may have open, or to nowhere.
LEMMA CloseStep ==
    ASSUME HistoryInv, NEW k \in Runs, CloseFile(k)
    PROVE  HistoryInv'
  <1>1. /\ at[k] = "close" /\ at' = [at EXCEPT ![k] = "over"] /\ live' = live \ {k}
        /\ path' = [path EXCEPT ![k] = None] /\ own' = [own EXCEPT ![k] = None]
        /\ UNCHANGED <<user, conv, messages, tab, made, clock, sent, crashes, author>>
    BY DEF CloseFile, Over, bounds
  <1>2. RunOK(k) /\ own[k] # None /\ (path[k] # None => path[k] \in Keys /\ path[k][1] = author[k])
    BY <1>1 DEF HistoryInv, RunOK, TypeOK
  <1>3. /\ Sound(own[k][1], at) /\ From(own[k][1], author[k], author)
        /\ own[k][1] \in Seq(Messages)
    BY <1>2 DEF RunOK, Sound
  <1>4. \A f \in Keys : \/ file'[f] = file[f] /\ (f # path[k])
                        \/ file'[f] \in {Broken, History(own[k][1])} /\ f = path[k]
    <2>1. CASE path[k] = None
      BY <2>1, KeyIs DEF CloseFile
    <2>2. CASE path[k] # None
      <3>1. PICK new \in {Broken, History(own[k][1])} : file' = [file EXCEPT ![path[k]] = new]
        BY <2>2 DEF CloseFile
      <3> QED
        BY <1>2, <2>2, <3>1 DEF HistoryInv, TypeOK
    <2> QED
      BY <2>1, <2>2
  <1>5. file' = [f \in Keys |-> file'[f]]
    BY <1>2 DEF CloseFile, HistoryInv, TypeOK
  <1>6. Forward(at, at') /\ "over" \in Labels
    BY <1>1 DEF Forward, Asked, Replied, HistoryInv, TypeOK, Labels
  <1>7. /\ AuthorsKept /\ Alone' /\ at' \in [Runs -> Labels] /\ live' \subseteq Runs
        /\ \A j \in Runs \ {k} : RunOK(j)'
    BY <1>1, <1>6, OthersKept DEF HistoryInv, TypeOK
  <1>8. at'[k] = "over" /\ own'[k] = None /\ path'[k] = None
        /\ \A j \in Runs \ {k} : at'[j] = at[j] /\ own'[j] = own[j] /\ path'[j] = path[j]
    BY <1>1 DEF HistoryInv, TypeOK
  <1>9. RunOK(k)'
    BY <1>1, <1>2, <1>8, RunEnds
  <1>10. TypeOK'
    <2>1. /\ own' = [j \in Runs |-> own'[j]] /\ path' \in [Runs -> Keys \cup {None}]
          /\ \A j \in Runs : \/ own'[j] = None
                             \/ own'[j] = <<own'[j][1]>> /\ own'[j][1] \in Seq(Messages)
      BY <1>1, <1>8 DEF HistoryInv, TypeOK
    <2>2. \A f \in Keys : \/ file'[f] \in {Absent, Empty, Broken}
                          \/ file'[f] = History(file'[f].msgs) /\ file'[f].msgs \in Seq(Messages)
      BY <1>3, <1>4, Contents DEF HistoryInv, TypeOK
    <2> QED
      BY <1>1, <1>5, <1>7, <2>1, <2>2 DEF HistoryInv, TypeOK
  <1>11. \A q \in Sessions : SessionOK(q)'
    BY <1>1, <1>6, <1>7, SessionFrame DEF HistoryInv
  <1>12. ASSUME NEW f \in Keys PROVE FileOK(f)'
    <2>1. CASE file'[f] = file[f] \/ file'[f] = Broken
      BY <1>6, <1>7, <2>1, FileFrame, Contents DEF HistoryInv
    <2>2. CASE file'[f] = History(own[k][1]) /\ f = path[k]
      <3>1. Sound(own[k][1], at') /\ f[1] = author[k]
        BY <1>2, <1>3, <1>6, <2>2, SoundForward, KeyIs
      <3> QED
        BY <1>1, <1>3, <2>2, <3>1, Contents DEF FileOK
    <2> QED
      BY <1>4, <2>1, <2>2
  <1>13. TruncatedIsFilled'
    <2> SUFFICES ASSUME crashes' = 0, NEW f \in Keys, file'[f] = Empty
                 PROVE  \E j \in Runs : path'[j] = f /\ at'[j] \in {"write", "close"}
      BY DEF TruncatedIsFilled
    <2>1. f # path[k] /\ file[f] = Empty
      BY <1>4 DEF Broken, Empty, History
    <2>2. PICK j \in Runs : path[j] = f /\ at[j] \in {"write", "close"}
      BY <1>1, <2>1 DEF HistoryInv, TruncatedIsFilled
    <2> QED
      BY <1>8, <2>1, <2>2
  <1> QED
    BY <1>7, <1>9, <1>10, <1>11, <1>12, <1>13 DEF HistoryInv

\* Every step keeps the invariant.
LEMMA HistoryStep == HistoryInv /\ [Next]_vars => HistoryInv'
  <1> SUFFICES ASSUME HistoryInv, [Next]_vars PROVE HistoryInv'
    OBVIOUS
  <1>1. ASSUME NEW s \in Sessions, Interaction(s) PROVE HistoryInv'
    BY <1>1, TabStep, PromptStep, SelectStep, ClearStep DEF Interaction
  <1>2. ASSUME NEW k \in Runs, RunStep(k) PROVE HistoryInv'
    BY <1>2, FetchStep, AppendStep, PathStep, OpenStep, DumpStep, CloseStep DEF RunStep
  <1> QED
    BY <1>1, <1>2, ServerStep DEF Next

\* The invariant of the chat holds at all times.
LEMMA HistoryAlways == Spec => []HistoryInv
  BY HistoryInit, HistoryStep, PTL DEF Spec

\* In every history an answer stands behind the question it was made for and nothing
\* stands twice, however many tabs there are, however their runs are stopped and
\* whichever conversations are opened or removed under them (chatbot, lines 364, 407).
THEOREM OrderKept == Spec => []AnswersFollowPrompts
  BY HistoryAlways, InvIs, PTL

\* Without a crash, a file that was truncated has a writer: no order of stopping,
\* removing and saving in several tabs leaves one empty (save_conversation).
THEOREM FilesFilled == Spec => []TruncatedIsFilled
  BY HistoryAlways, InvIs, PTL

\* Sessions and files hold only what was written under their own directory, for
\* every set of names and every way to make directories of them.
THEOREM UsersApart == Spec => []OwnMessagesOnly
  BY HistoryAlways, InvIs, PTL

\* Where a run stands agrees with the list of its session and with the file it saves
\* to, also after it was stopped and its session has gone on.
THEOREM RunsAgree == Spec => []ChatInv
  BY HistoryAlways, InvIs, PTL

-----------------------------------------------------------------------------
(* The middleware.                                                         *)

\* LockExact is not inductive without the types: a lock that is no request's and
\* not Nothing would never be free again.
LockInv == AppTypeOK /\ LockExact

\* The application starts with db_lock free and no request.
LEMMA LockInit == AppInit => LockInv
  BY MiddlewareAssumption DEF AppInit, LockInv, AppTypeOK, LockExact

\* What a request's result becomes is always one of the answers.
LEMMA AnswerType ==
    ASSUME NEW kind \in {"errors", "usage", "infer"}, NEW res
    PROVE  AnswerOf(kind, res) \in {"500", "UsageResponse", "200 result", "200 error"}
  BY DEF AnswerOf

\* Every step of the event loop, of a thread of the pool and of the start-up
\* keeps the lock with the one request whose query is open.
LEMMA LockStep == LockInv /\ [AppNext]_appVars => LockInv'
  <1> SUFFICES ASSUME LockInv, [AppNext]_appVars PROVE LockInv'
    OBVIOUS
  <1> USE DEF LockInv
  <1>1. CASE UNCHANGED appVars
    BY <1>1 DEF appVars, AppTypeOK, LockExact
  <1>2. CASE Start \/ InitStatement \/ Serve
    BY <1>2 DEF Start, InitStatement, Serve, AppTypeOK, LockExact
  <1>3. ASSUME NEW r \in Requests, Receive(r) \/ Dispatch(r)
        PROVE  LockInv'
    BY <1>3 DEF Receive, Dispatch, AppTypeOK, LockExact
  <1>4. ASSUME NEW r \in Requests, Acquire(r)
        PROVE  LockInv'
    \* Nobody has a query open, for the lock is free.
    <2>1. \A q \in Requests : pc[q] # "query"
      BY <1>4, MiddlewareAssumption DEF Acquire, LockExact
    <2> QED
      BY <1>4, <2>1 DEF Acquire, AppTypeOK, LockExact
  <1>5. ASSUME NEW r \in Requests, RunQuery(r)
        PROVE  LockInv'
    \* The query of r is the only one open.
    <2>1. \A q \in Requests : q # r => pc[q] # "query"
      BY <1>5 DEF RunQuery, LockExact
    <2>2. PICK res \in {"empty", "rows", "raised"} : result' = [result EXCEPT ![r] = res]
      BY <1>5 DEF RunQuery
    <2> QED
      BY <1>5, <2>1, <2>2, MiddlewareAssumption DEF RunQuery, AppTypeOK, LockExact
  <1>6. ASSUME NEW r \in Requests, VllmAnswers(r)
        PROVE  LockInv'
    <2>1. PICK res \in {"ok", "unreachable", "status", "raised"} :
             result' = [result EXCEPT ![r] = res]
      BY <1>6 DEF VllmAnswers
    <2> QED
      BY <1>6, <2>1 DEF VllmAnswers, AppTypeOK, LockExact
  <1>7. ASSUME NEW r \in Requests, Respond(r)
        PROVE  LockInv'
    <2>1. AnswerOf(Kind[r], result[r]) \in {"500", "UsageResponse", "200 result", "200 error"}
      BY AnswerType, MiddlewareAssumption
    <2> QED
      BY <1>7, <2>1 DEF Respond, AppTypeOK, LockExact
  <1> QED
    BY <1>1, <1>2, <1>3, <1>4, <1>5, <1>6, <1>7 DEF AppNext, Step

\* However many requests and threads there are, and whatever a query raises,
\* db_lock is held exactly by the thread whose connection is open
\* (middleware/src/database.py, with db_lock, with duckdb.connect).
THEOREM LockAlwaysExact == AppSpec => []LockExact
  <1>1. LockInv => LockExact
    BY DEF LockInv
  <1> QED
    BY LockInit, LockStep, <1>1, PTL DEF AppSpec
=============================================================================
