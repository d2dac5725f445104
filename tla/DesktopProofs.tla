--------------------------- MODULE DesktopProofs ---------------------------
(***************************************************************************)
(* Proofs about the programs of the desktop: the usage bars (the cache     *)
(* of Claude's, for any number of bars, sessions, records and failures,    *)
(* and the exchange with codex app-server) and the hotkey that opens a     *)
(* browser tab as an app, for any tabs, presses and acts of the user.      *)
(***************************************************************************)
EXTENDS ClaudeUsage, CodexUsage, BrowserTab, TLAPS

\* A run that has not been overlapped is the only one under way, so the file
\* it has emptied is still empty when it writes it.
Alone ==
    \A b \in Bars :
        alone[b] /\ pc[b] # "idle" =>
            /\ \A c \in Bars \ {b} : pc[c] = "idle"
            /\ pc[b] = "write" => cache = Empty

\* What makes LastSuccessful inductive.
CacheInv == TypeOK /\ Alone /\ CacheHeals /\ LastSuccessful

LEMMA TypeInit == Init => TypeOK
<1> SUFFICES ASSUME Init PROVE TypeOK
  OBVIOUS
<1>1. records \in 0 .. MaxRecords /\ kills \in 0 .. MaxKills
  BY UsageAssumption DEF Init
<1>2. [of |-> Nothing, stale |-> FALSE] \in Shown
  BY DEF Shown
<1>3. /\ hook \in [Sessions -> RecordFile]
      /\ record \in RecordFile
      /\ pc \in [Bars -> {"idle", "read", "open", "write", "fallback", "show", "stale"}]
      /\ summary \in [Bars -> Summaries \cup {Nothing}]
      /\ shown \in [Bars -> Shown]
  BY <1>2 DEF Init, RecordFile
<1>4. alone \in [Bars -> BOOLEAN] /\ disturbed \in BOOLEAN
  BY DEF Init
<1> QED BY <1>1, <1>3, <1>4 DEF Init, TypeOK

LEMMA TypeStep == TypeOK /\ [Next]_vars => TypeOK'
<1> SUFFICES ASSUME TypeOK, [Next]_vars PROVE TypeOK'
  OBVIOUS
<1> USE UsageAssumption DEF TypeOK, Goto, files, ghost
<1>1. ASSUME NEW s \in Sessions, WriteTemporary(s) PROVE TypeOK'
  <2>1. PICK u \in BOOLEAN :
            hook' = [hook EXCEPT ![s] = {[at |-> records + 1, usable |-> u]}]
    BY <1>1 DEF WriteTemporary
  <2>2. records + 1 \in Summaries
    BY <1>1 DEF WriteTemporary, Summaries
  <2>3. {[at |-> records + 1, usable |-> u]} \in RecordFile
    BY <2>2 DEF RecordFile, Record
  <2>4. hook' \in [Sessions -> RecordFile]
    BY <2>1, <2>3
  <2> QED BY <1>1, <2>4 DEF WriteTemporary
<1>2. ASSUME NEW s \in Sessions, Replace(s) PROVE TypeOK'
  BY <1>2 DEF Replace, RecordFile
<1>3. ASSUME NEW s \in Sessions, HookFails(s) PROVE TypeOK'
  BY <1>3 DEF HookFails, RecordFile
<1>4. ASSUME NEW b \in Bars, Start(b) PROVE TypeOK'
  <2>1. alone' \in [Bars -> BOOLEAN]
    BY <1>4 DEF Start
  <2> QED BY <1>4, <2>1 DEF Start
<1>5. ASSUME NEW b \in Bars, ReadRecord(b) PROVE TypeOK'
  <2>1. \A r \in Usable : r.at \in Summaries
    BY DEF Usable, RecordFile, Record
  <2> QED BY <1>5, <2>1 DEF ReadRecord
<1>6. ASSUME NEW b \in Bars, OpenCache(b) PROVE TypeOK'
  BY <1>6 DEF OpenCache
<1>7. ASSUME NEW b \in Bars, WriteCache(b) PROVE TypeOK'
  BY <1>7 DEF WriteCache, Written
<1>8. ASSUME NEW b \in Bars, LoseCache(b) PROVE TypeOK'
  BY <1>8 DEF LoseCache
<1>9. ASSUME NEW b \in Bars, ReadCache(b) PROVE TypeOK'
  BY <1>9 DEF ReadCache, Parsed
<1>10. ASSUME NEW b \in Bars, Show(b) PROVE TypeOK'
  BY <1>10 DEF Show, Shown
<1>11. ASSUME NEW b \in Bars, Kill(b) PROVE TypeOK'
  BY <1>11 DEF Kill, Shown
<1>12. CASE UNCHANGED vars
  BY <1>12 DEF vars
<1> QED BY <1>1, <1>2, <1>3, <1>4, <1>5, <1>6, <1>7, <1>8, <1>9, <1>10, <1>11,
       <1>12 DEF Next, Hook, Poll

\* The usage cache and the bars keep their types.
THEOREM UsageTypeCorrect == Spec => []TypeOK
BY TypeInit, TypeStep, PTL DEF Spec

-----------------------------------------------------------------------------
LEMMA CacheInit == Init => CacheInv
BY TypeInit DEF Init, CacheInv, Alone, CacheHeals, LastSuccessful

\* The hooks touch neither the cache nor the bars.
LEMMA HookKeeps ==
    ASSUME CacheInv, NEW s \in Sessions, Hook(s)
    PROVE  Alone' /\ CacheHeals' /\ LastSuccessful'
<1>1. UNCHANGED <<cache, pc, summary, last, alone, disturbed>>
  BY DEF Hook, WriteTemporary, Replace, HookFails, files, ghost
<1> QED BY <1>1 DEF CacheInv, Alone, CacheHeals, LastSuccessful

\* A run that begins is alone if no other is under way, and then no other
\* is alone any more.
LEMMA StartKeeps ==
    ASSUME CacheInv, NEW b \in Bars, Start(b)
    PROVE  Alone' /\ CacheHeals' /\ LastSuccessful'
<1>1. UNCHANGED <<cache, summary, last, disturbed>>
  BY DEF Start, files
<1>2. /\ pc[b] = "idle" /\ pc'[b] = "read"
      /\ \A c \in Bars \ {b} : pc'[c] = pc[c]
      /\ alone'[b] => \A d \in Bars \ {b} : pc[d] = "idle"
      /\ \A c \in Bars \ {b} : alone'[c] => pc[c] = "idle"
  BY DEF Start, Goto, CacheInv, TypeOK
<1> QED BY <1>1, <1>2 DEF CacheInv, Alone, CacheHeals, LastSuccessful

\* A step of a run under way leaves the other runs where they are; what is to
\* show is what becomes of the run itself, and of the cache under the others.
LEMMA RunKeepsAlone ==
    ASSUME CacheInv, NEW b \in Bars, pc[b] # "idle",
           UNCHANGED alone,
           \A c \in Bars \ {b} : pc'[c] = pc[c],
           pc'[b] = "write" => cache' = Empty
    PROVE  Alone'
<1> SUFFICES ASSUME NEW c \in Bars, alone[c], pc'[c] # "idle"
             PROVE  /\ \A d \in Bars \ {c} : pc'[d] = "idle"
                    /\ pc'[c] = "write" => cache' = Empty
  BY DEF Alone
<1>1. CASE c = b
  BY DEF CacheInv, Alone
<1>2. CASE c # b
  BY DEF CacheInv, Alone
<1> QED BY <1>1, <1>2

LEMMA PollKeeps ==
    ASSUME CacheInv, NEW b \in Bars,
           \/ ReadRecord(b) \/ OpenCache(b) \/ WriteCache(b) \/ LoseCache(b)
           \/ ReadCache(b) \/ Show(b) \/ Kill(b)
    PROVE  Alone' /\ CacheHeals' /\ LastSuccessful'
<1> USE DEF files, ghost, Goto
<1>0. /\ pc \in [Bars -> {"idle", "read", "open", "write", "fallback", "show", "stale"}]
      /\ summary \in [Bars -> Summaries \cup {Nothing}]
      /\ last \in Summaries \cup {Nothing}
  BY DEF CacheInv, TypeOK
<1>1. CASE ReadRecord(b)
  <2>1. /\ pc[b] # "idle" /\ pc'[b] \in {"open", "fallback"}
        /\ \A c \in Bars \ {b} : pc'[c] = pc[c] /\ summary'[c] = summary[c]
        /\ UNCHANGED <<cache, last, alone, disturbed>>
    BY <1>0, <1>1 DEF ReadRecord
  <2>2. Alone'
    BY <2>1, RunKeepsAlone
  <2> QED BY <2>1, <2>2 DEF CacheInv, CacheHeals, LastSuccessful
<1>2. CASE OpenCache(b)
  <2>1. /\ pc[b] # "idle" /\ \A c \in Bars \ {b} : pc'[c] = pc[c]
        /\ cache' = Empty /\ disturbed' = TRUE
        /\ UNCHANGED alone
    BY <1>2 DEF OpenCache
  <2>2. Alone'
    BY <2>1, RunKeepsAlone
  <2> QED BY <2>1, <2>2 DEF CacheHeals, LastSuccessful
<1>3. CASE WriteCache(b)
  <2>1. /\ pc[b] = "write" /\ pc'[b] = "show"
        /\ \A c \in Bars \ {b} : pc'[c] = pc[c]
        /\ cache' = summary[b] \/ cache \notin {Empty, summary[b]}
        /\ last' = summary[b] /\ disturbed' = ~alone[b]
        /\ UNCHANGED <<alone, summary>>
    BY <1>0, <1>3 DEF WriteCache, Written
  <2>2. Alone'
    BY <2>1, RunKeepsAlone
  <2>3. alone[b] => cache = Empty /\ \A c \in Bars \ {b} : pc[c] = "idle"
    BY <2>1 DEF CacheInv, Alone
  <2>4. ~disturbed' => cache' = last'
    BY <2>1, <2>3
  <2>5. ~disturbed' => \A c \in Bars : pc'[c] # "stale"
    BY <2>1, <2>3
  <2> QED BY <2>2, <2>4, <2>5 DEF CacheHeals, LastSuccessful
<1>4. CASE LoseCache(b)
  <2>1. /\ pc[b] # "idle" /\ pc'[b] = "show"
        /\ \A c \in Bars \ {b} : pc'[c] = pc[c]
        /\ disturbed' = TRUE
        /\ UNCHANGED <<cache, alone>>
    BY <1>0, <1>4 DEF LoseCache
  <2>2. Alone'
    BY <2>1, RunKeepsAlone
  <2> QED BY <2>1, <2>2 DEF CacheHeals, LastSuccessful
<1>5. CASE ReadCache(b)
  <2>1. /\ pc[b] # "idle" /\ pc'[b] = "stale"
        /\ \A c \in Bars \ {b} : pc'[c] = pc[c] /\ summary'[c] = summary[c]
        /\ summary'[b] = Parsed
        /\ UNCHANGED <<cache, last, alone, disturbed>>
    BY <1>0, <1>5 DEF ReadCache
  <2>2. Alone'
    BY <2>1, RunKeepsAlone
  <2>3. cache = last => Parsed = last
    BY <1>0 DEF Parsed
  <2> QED BY <2>1, <2>2, <2>3 DEF CacheInv, CacheHeals, LastSuccessful
<1>6. CASE Show(b) \/ Kill(b)
  <2>1. /\ pc[b] # "idle" /\ pc'[b] = "idle"
        /\ \A c \in Bars \ {b} : pc'[c] = pc[c]
        /\ UNCHANGED <<cache, summary, last, alone, disturbed>>
    BY <1>0, <1>6 DEF Show, Kill
  <2>2. Alone'
    BY <2>1, RunKeepsAlone
  <2> QED BY <2>1, <2>2 DEF CacheInv, CacheHeals, LastSuccessful
<1> QED BY <1>1, <1>2, <1>3, <1>4, <1>5, <1>6

LEMMA CacheStep == CacheInv /\ [Next]_vars => CacheInv'
<1> SUFFICES ASSUME CacheInv, [Next]_vars PROVE Alone' /\ CacheHeals' /\ LastSuccessful'
  BY TypeStep DEF CacheInv
<1>1. ASSUME NEW s \in Sessions, Hook(s) PROVE Alone' /\ CacheHeals' /\ LastSuccessful'
  BY <1>1, HookKeeps
<1>2. ASSUME NEW b \in Bars, Poll(b) \/ LoseCache(b) \/ Kill(b)
      PROVE  Alone' /\ CacheHeals' /\ LastSuccessful'
  BY <1>2, StartKeeps, PollKeeps DEF Poll
<1>3. CASE UNCHANGED vars
  BY <1>3 DEF vars, files, ghost, CacheInv, Alone, CacheHeals, LastSuccessful
<1> QED BY <1>1, <1>2, <1>3 DEF Next

LEMMA CacheCorrect == Spec => []CacheInv
BY CacheInit, CacheStep, PTL DEF Spec

\* "Showing last successful value" is true of every bar, unless the last
\* write of the cache was lost, cut short or overlapped.
THEOREM StaleIsLast == Spec => []LastSuccessful
BY CacheCorrect, PTL DEF CacheInv

\* One run that has the cache to itself makes it whole again.
THEOREM CacheIsHealed == Spec => []CacheHeals
BY CacheCorrect, PTL DEF CacheInv

-----------------------------------------------------------------------------
\* A message is left to send.
Sending == codexPc = "send" => sent < LastMessage

\* The replies taken in an exchange are to its own request.
OwnReplies ==
    codexPc \in {"send", "check", "readline", "end"} =>
        \A r \in responses : r.id = request

\* What makes ReplyIsOwn and NoServerLeft inductive: Sending keeps the number
\* of messages sent in its type.
CodexInv == CodexTypeOK /\ Sending /\ OwnReplies /\ NoServerLeft

\* What is no notification is a reply.
LEMMA Lines ==
    ASSUME NEW line \in Reply \cup Noise, IsReply(line)
    PROVE  line \in Reply
  BY DEF Reply, Noise, IsReply

LEMMA Ids ==
    ASSUME NEW message \in 1 .. LastMessage, NEW r \in {1, 2}
    PROVE  IdOf(message, r) \subseteq 0 .. 2
<1>1. message \in {1, 2, 3}
  BY DEF LastMessage
<1> QED BY <1>1 DEF IdOf

LEMMA CodexInvInit == ASSUME CodexInit PROVE CodexInv
<1>1. pipe \in Seq(Reply \cup Noise) /\ Len(pipe) <= MaxPipe
  BY CodexAssumption DEF CodexInit
<1>2. sent \in 0 .. LastMessage
  BY DEF CodexInit, LastMessage
<1>3. CodexTypeOK
  BY <1>1, <1>2 DEF CodexInit, CodexTypeOK
<1> QED BY <1>3 DEF CodexInit, CodexInv, Sending, OwnReplies, NoServerLeft

LEMMA FetchStep ==
    ASSUME CodexInv, PollCodex \/ Fetch \/ Deadline
    PROVE  CodexInv'
<1> USE CodexAssumption DEF CodexInv, CodexTypeOK, Sending, OwnReplies,
        NoServerLeft, LastMessage, serverVars
<1>1. CASE PollCodex
  BY <1>1 DEF PollCodex
<1>2. CASE NoCodex
  BY <1>2 DEF NoCodex
<1>3. CASE Popen
  <2>1. pipe' \in Seq(Reply \cup Noise) /\ Len(pipe') <= MaxPipe
    BY <1>3 DEF Popen
  <2>2. /\ server' = "up" /\ todo' = {} /\ sent' = 0 /\ late' = FALSE
        /\ responses' = {} /\ codexPc' = "send" /\ request' = request
        /\ bar' = bar
    BY <1>3 DEF Popen
  <2>3. sent' \in 0 .. LastMessage
    BY <2>2
  <2>4. CodexTypeOK'
    BY <2>1, <2>2, <2>3
  <2> QED BY <2>2, <2>4
<1>4. CASE Send
  <2>1. sent + 1 \in 1 .. LastMessage
    BY <1>4 DEF Send
  <2>2. todo' \subseteq 0 .. 2
    BY <1>4, <2>1, Ids DEF Send
  <2> QED BY <1>4, <2>1, <2>2 DEF Send
<1>5. CASE SendRaises
  BY <1>5 DEF SendRaises
<1>6. CASE Check
  BY <1>6 DEF Check
<1>7. CASE ReadLine
  <2>1. /\ Head(pipe) \in Reply \cup Noise
        /\ Tail(pipe) \in Seq(Reply \cup Noise)
        /\ Len(Tail(pipe)) <= MaxPipe
    BY <1>7 DEF ReadLine
  <2>2. \/ /\ responses' = {Head(pipe)} /\ codexPc' = "check"
           /\ Head(pipe) \in Reply /\ Head(pipe).id = request
        \/ responses' = responses /\ codexPc' \in {"check", "raise"}
    BY <1>7, Lines DEF ReadLine, IsPending
  <2>3. /\ codexPc = "readline" /\ pipe' = Tail(pipe)
        /\ request' = request /\ server' = server /\ todo' = todo
        /\ sent' = sent /\ late' = late /\ bar' = bar
    BY <1>7 DEF ReadLine
  <2>4. OwnReplies' /\ responses' \subseteq Reply
    BY <2>2, <2>3
  <2>5. CodexTypeOK'
    BY <2>1, <2>2, <2>3
  <2> QED BY <2>2, <2>3, <2>4, <2>5
<1>8. CASE ReadEof
  BY <1>8 DEF ReadEof
<1>9. CASE EndExchange
  BY <1>9 DEF EndExchange, Terminated
<1>10. CASE Raise
  BY <1>10 DEF Raise, Terminated
<1>11. CASE Exit
  BY <1>11 DEF Exit
<1>12. CASE Deadline
  BY <1>12 DEF Deadline
<1> QED BY <1>1, <1>2, <1>3, <1>4, <1>5, <1>6, <1>7, <1>8, <1>9, <1>10, <1>11,
       <1>12 DEF Fetch

LEMMA LineWritten ==
    ASSUME CodexTypeOK, NEW line \in Reply \cup Noise, Write(line)
    PROVE  pipe' \in Seq(Reply \cup Noise) /\ Len(pipe') <= MaxPipe
  BY CodexAssumption DEF CodexTypeOK, Write

LEMMA ServerStep ==
    ASSUME CodexInv, Answer \/ Chatter \/ Exits \/ Hangs
    PROVE  CodexInv'
<1> USE DEF CodexInv, CodexTypeOK, Sending, OwnReplies, NoServerLeft,
        serverVars
<1>1. CASE Answer
  <2>1. PICK id \in todo, useful \in BOOLEAN :
            /\ Write([id |-> id, useful |-> useful])
            /\ todo' = todo \ {id}
    BY <1>1 DEF Answer
  <2>2. [id |-> id, useful |-> useful] \in Reply
    BY DEF Reply
  <2>3. pipe' \in Seq(Reply \cup Noise) /\ Len(pipe') <= MaxPipe
    BY <2>1, <2>2, LineWritten
  <2> QED BY <1>1, <2>1, <2>3 DEF Answer
<1>2. CASE Chatter
  <2>1. PICK text \in BOOLEAN : Write([id |-> 3, text |-> text])
    BY <1>2 DEF Chatter
  <2>2. [id |-> 3, text |-> text] \in Noise
    BY DEF Noise
  <2>3. pipe' \in Seq(Reply \cup Noise) /\ Len(pipe') <= MaxPipe
    BY <2>1, <2>2, LineWritten
  <2> QED BY <1>2, <2>3 DEF Chatter
<1>3. CASE Exits
  BY <1>3 DEF Exits
<1>4. CASE Hangs
  BY <1>4 DEF Hangs
<1> QED BY <1>1, <1>2, <1>3, <1>4

LEMMA CodexInvStep == CodexInv /\ [CodexNext]_codexVars => CodexInv'
<1>1. CodexInv /\ UNCHANGED codexVars => CodexInv'
  BY DEF codexVars, serverVars, CodexInv, CodexTypeOK, Sending,
     OwnReplies, NoServerLeft
<1> QED BY <1>1, FetchStep, ServerStep DEF CodexNext

LEMMA CodexCorrect == CodexSpec => []CodexInv
<1>1. CodexInit => CodexInv
  BY CodexInvInit
<1>2. CodexInv /\ [CodexNext]_codexVars => CodexInv'
  BY CodexInvStep
<1> QED BY <1>1, <1>2, PTL DEF CodexSpec

\* Every variable of the exchange with codex app-server keeps its type, and
\* its pipe the bound.
THEOREM CodexTypeCorrect == CodexSpec => []CodexTypeOK
<1>1. CodexInv => CodexTypeOK
  BY DEF CodexInv
<1> QED BY <1>1, CodexCorrect, PTL

\* What is made of an exchange is the reply to its own request, whatever the
\* server writes and however slow it is (lines 190-201, 218).
THEOREM RepliesAreOwn == CodexSpec => []ReplyIsOwn
<1>1. CodexInv => ReplyIsOwn
  BY DEF CodexInv, OwnReplies, ReplyIsOwn
<1> QED BY <1>1, CodexCorrect, PTL

\* No app-server outlives its exchange, on any way out of it (lines 225-229).
THEOREM ServersEnd == CodexSpec => []NoServerLeft
<1>1. CodexInv => NoServerLeft
  BY DEF CodexInv
<1> QED BY <1>1, CodexCorrect, PTL

-----------------------------------------------------------------------------
\* A press that is left alone is the only one, its tab stays the active one
\* and the only one that copies: the clipboard holds what it held before or
\* the address of the tab.
LeftAlone ==
    \A p \in Presses :
        tabPc[p] # "idle" /\ p \notin crossed =>
            /\ \A q \in Presses \ {p} : tabPc[q] = "idle"
            /\ asked[p] \in Tabs /\ focus = asked[p]
            /\ \A c \in copies : c.what = asked[p]
            /\ tabPc[p] \in {"read", "press"} => copies = {}
            /\ tabPc[p] = "press" => clipboard = previous[p]
            /\ tabPc[p] = "poll" => clipboard \in {previous[p], asked[p]}
            /\ tabPc[p] \in {"restore", "open"} =>
                   \/ url[p] = asked[p]
                   \/ /\ url[p] = previous[p]
                      /\ url[p] \in Tabs
                      /\ polls[p] = MaxPolls
                   \/ url[p] = Other /\ tabPc[p] = "restore"

\* What the user copied last, or the text it was made.
IsKept(content) == content \in {kept, AsText(kept)}

\* Until it is spoiled, the clipboard holds what the user copied, or a single
\* press knows it and is going to put it back.
KeptSafe ==
    ~spoiled =>
        /\ \A p, q \in Active : p = q
        /\ Active = {} => IsKept(clipboard)
        /\ \A p \in Active :
               /\ tabPc[p] \in {"read", "press", "open"} => IsKept(clipboard)
               /\ tabPc[p] \in {"press", "poll", "restore"} =>
                      IsKept(previous[p])

\* What makes OpensTheTab and ClipboardRestored inductive.
TabInv == TabTypeOK /\ LeftAlone /\ KeptSafe

LEMMA AsTextKeeps ==
    ASSUME NEW content \in Contents
    PROVE  /\ AsText(content) \in Contents
           /\ IsKept(content) => IsKept(AsText(content))
  BY DEF AsText, Contents, IsKept

LEMMA TabInvInit ==
    ASSUME TabInit
    PROVE  TabInv
<1>1. clipboard \in Contents /\ Text \in Contents
  BY DEF TabInit, Contents
<1>2. 0 \in 0 .. MaxPolls /\ 0 \in 0 .. MaxUser
  BY TabAssumption
<1>3. TabTypeOK
  BY <1>1, <1>2 DEF TabInit, TabTypeOK
<1>4. KeptSafe
  BY DEF TabInit, KeptSafe, Active, IsKept
<1> QED BY <1>3, <1>4 DEF TabInit, TabInv, LeftAlone

LEMMA TabTypeStep ==
    ASSUME TabTypeOK, [TabNext]_tabVars
    PROVE  TabTypeOK'
<1> USE TabAssumption DEF TabTypeOK, Step, mine, history
<1>1. CASE Copy
  <2>1. PICK c \in copies :
            /\ clipboard' = c.what
            /\ copies' = copies \ {c}
            /\ spoiled' = (spoiled \/ tabPc[c.by] \notin {"poll", "restore"})
    BY <1>1 DEF Copy
  <2>2. clipboard' \in Contents
    BY <2>1 DEF Contents
  <2> QED BY <1>1, <2>1, <2>2 DEF Copy
<1>2. CASE UserCopies
  BY <1>2 DEF UserCopies, UserActs, Contents, Active,
     Busy
<1>3. CASE UserMoves
  BY <1>3 DEF UserMoves, UserActs, Active
<1>4. ASSUME NEW p \in Presses, Press(p) PROVE TabTypeOK'
  BY <1>4 DEF Press, Active
<1>5. ASSUME NEW p \in Presses, ReadPrevious(p) PROVE TabTypeOK'
  BY <1>5 DEF ReadPrevious
<1>6. ASSUME NEW p \in Presses, PressCopy(p) PROVE TabTypeOK'
  <2>1. copies' \subseteq [by : Presses, what : Tabs \cup {Text}]
    BY <1>6 DEF PressCopy
  <2> QED BY <1>6, <2>1 DEF PressCopy
<1>7. ASSUME NEW p \in Presses, PollClipboard(p) PROVE TabTypeOK'
  BY <1>7 DEF PollClipboard, IsNewUrl
<1>8. ASSUME NEW p \in Presses, LastLook(p) PROVE TabTypeOK'
  BY <1>8 DEF LastLook, Found
<1>9. ASSUME NEW p \in Presses, Restore(p) PROVE TabTypeOK'
  <2>1. clipboard' \in Contents
    BY <1>9, AsTextKeeps DEF Restore, PutBack
  <2> QED BY <1>9, <2>1 DEF Restore, EndPress, Contents
<1>10. ASSUME NEW p \in Presses, Open(p) PROVE TabTypeOK'
  BY <1>10 DEF Open, EndPress, Contents
<1>11. CASE UNCHANGED tabVars
  BY <1>11 DEF tabVars
<1> QED BY <1>1, <1>2, <1>3, <1>4, <1>5, <1>6, <1>7, <1>8, <1>9, <1>10, <1>11
       DEF TabNext

LEMMA AloneStep ==
    ASSUME TabInv, [TabNext]_tabVars
    PROVE  LeftAlone'
<1> USE DEF TabInv, LeftAlone, TabTypeOK, Step, mine, history
<1>1. CASE Copy
  BY <1>1 DEF Copy
<1>2. CASE UserCopies
  BY <1>2 DEF UserCopies, UserActs, Active
<1>3. CASE UserMoves
  BY <1>3 DEF UserMoves, UserActs, Active
<1>4. ASSUME NEW p \in Presses, Press(p) PROVE LeftAlone'
  BY <1>4 DEF Press, Busy, Active
<1>5. ASSUME NEW p \in Presses, ReadPrevious(p) PROVE LeftAlone'
  BY <1>5 DEF ReadPrevious
<1>6. ASSUME NEW p \in Presses, PressCopy(p) PROVE LeftAlone'
  BY <1>6, TabAssumption DEF PressCopy
<1>7. ASSUME NEW p \in Presses, PollClipboard(p) PROVE LeftAlone'
  BY <1>7 DEF PollClipboard, IsNewUrl
<1>8. ASSUME NEW p \in Presses, LastLook(p) PROVE LeftAlone'
  BY <1>8 DEF LastLook, Found
<1>9. ASSUME NEW p \in Presses, Restore(p) PROVE LeftAlone'
  BY <1>9 DEF Restore, EndPress
<1>10. ASSUME NEW p \in Presses, Open(p) PROVE LeftAlone'
  BY <1>10 DEF Open, EndPress
<1>11. CASE UNCHANGED tabVars
  BY <1>11 DEF tabVars
<1> QED BY <1>1, <1>2, <1>3, <1>4, <1>5, <1>6, <1>7, <1>8, <1>9, <1>10, <1>11
       DEF TabNext

LEMMA KeptStep ==
    ASSUME TabInv, [TabNext]_tabVars
    PROVE  KeptSafe'
<1> USE DEF TabInv, KeptSafe, TabTypeOK, Step, mine, history,
            Active
<1>1. CASE Copy
  <2>1. PICK c \in copies :
            spoiled' = (spoiled \/ tabPc[c.by] \notin {"poll", "restore"})
    BY <1>1 DEF Copy
  <2>2. c.by \in Presses
    OBVIOUS
  <2>3. ~spoiled' => /\ ~spoiled /\ tabPc[c.by] \in {"poll", "restore"}
                     /\ \A p \in Active : p = c.by
    BY <2>1
  <2>4. UNCHANGED <<tabPc, previous, kept>>
    BY <1>1 DEF Copy
  <2> QED BY <2>2, <2>3, <2>4 DEF IsKept, AsText
<1>2. CASE UserCopies
  BY <1>2 DEF UserCopies, UserActs, Busy, IsKept
<1>3. CASE UserMoves
  BY <1>3 DEF UserMoves, UserActs, IsKept
<1>4. ASSUME NEW p \in Presses, Press(p) PROVE KeptSafe'
  BY <1>4 DEF Press, Busy, IsKept
<1>5. ASSUME NEW p \in Presses, ReadPrevious(p) PROVE KeptSafe'
  BY <1>5 DEF ReadPrevious, IsKept
<1>6. ASSUME NEW p \in Presses, PressCopy(p) PROVE KeptSafe'
  BY <1>6 DEF PressCopy, IsKept
<1>7. ASSUME NEW p \in Presses, PollClipboard(p) PROVE KeptSafe'
  BY <1>7 DEF PollClipboard, IsKept
<1>8. ASSUME NEW p \in Presses, LastLook(p) PROVE KeptSafe'
  BY <1>8 DEF LastLook, IsKept
<1>9. ASSUME NEW p \in Presses, Restore(p) PROVE KeptSafe'
  BY <1>9, AsTextKeeps DEF Restore, EndPress, PutBack, IsKept
<1>10. ASSUME NEW p \in Presses, Open(p) PROVE KeptSafe'
  BY <1>10 DEF Open, EndPress, IsKept
<1>11. CASE UNCHANGED tabVars
  BY <1>11 DEF tabVars, IsKept
<1> QED BY <1>1, <1>2, <1>3, <1>4, <1>5, <1>6, <1>7, <1>8, <1>9, <1>10, <1>11
       DEF TabNext

LEMMA TabInvStep == TabInv /\ [TabNext]_tabVars => TabInv'
  BY TabTypeStep, AloneStep, KeptStep DEF TabInv

LEMMA TabCorrect == TabSpec => []TabInv
<1>1. TabInit => TabInv
  BY TabInvInit
<1>2. TabInv /\ [TabNext]_tabVars => TabInv'
  BY TabInvStep
<1> QED BY <1>1, <1>2, PTL DEF TabSpec

\* The desktop and the presses keep their types.
THEOREM TabTypeCorrect == TabSpec => []TabTypeOK
<1>1. TabInv => TabTypeOK
  BY DEF TabInv
<1> QED BY <1>1, TabCorrect, PTL

\* However many tabs and presses there are and however long the browser takes,
\* a press that is left alone opens the tab it was meant for, or, after the
\* last look, the address the clipboard held before (wait_for_url(), lines
\* 100-112).
THEOREM TabIsOpened == TabSpec => []OpensTheTab
<1>1. TabInv => OpensTheTab
  BY DEF TabInv, LeftAlone, OpensTheTab
<1> QED BY <1>1, TabCorrect, PTL

\* The clipboard holds what the user copied last, when all is quiet and nothing
\* has spoiled it (main(), lines 158-162).
THEOREM ClipboardIsRestored == TabSpec => []ClipboardRestored
<1>1. TabInv => ClipboardRestored
  BY DEF TabInv, KeptSafe, IsKept, ClipboardRestored, Busy
<1> QED BY <1>1, TabCorrect, PTL
=============================================================================
