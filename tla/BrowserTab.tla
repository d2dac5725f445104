------------------------------ MODULE BrowserTab ------------------------------
(***************************************************************************)
(* The hotkey script browser-tab-to-chrome-app: it makes the browser copy  *)
(* the address of the active tab, takes it from the clipboard, puts back   *)
(* what the clipboard held before, and opens the address as an app.        *)
(*                                                                         *)
(* The browser copies when it gets to it, or never; the user copies and    *)
(* moves between windows meanwhile; and nothing stops a second press of    *)
(* the hotkey while a first one waits.  Init, Next, Spec and pc are named  *)
(* for the tab, so that DesktopProofs can extend this module and others.   *)
(***************************************************************************)
EXTENDS Naturals

CONSTANTS
    Presses,    \* presses of the hotkey that may be under way at one time
    Tabs,       \* browser tabs, each standing for its address
    Other,      \* a window that is no browser
    Text,       \* a clipboard content that is text and no address
    Picture,    \* one that is not text
    Garbled,    \* a picture put back as text/plain
    MaxPolls,   \* range(40) in wait_for_url()
    MaxUser     \* bound: what the user does beside pressing the hotkey

Contents == Tabs \cup {Text, Picture, Garbled}

ASSUME TabAssumption ==
    /\ {Other, Text, Picture, Garbled} \cap Tabs = {}
    /\ Other \notin {Text, Picture, Garbled}
    /\ Garbled \notin {Text, Picture} /\ Text # Picture
    /\ {MaxPolls, MaxUser} \subseteq Nat

VARIABLES
    clipboard,
    focus,      \* the active window: a tab, or Other
    copies,     \* what windows have been told to copy and have not yet, each
                \* with the press that told them
    tabPc,
    previous,   \* previous_clipboard
    polls,
    url,        \* what a press has found, Other if nothing
    asked,      \* history: the tab that was active when the hotkey was pressed
    crossed,    \* history: the presses that were not left alone
    kept,       \* history: what the user copied last
    spoiled,    \* history: ... and may have been lost since
    user

mine    == <<previous, polls, url>>
history == <<asked, crossed, kept, spoiled>>
tabVars    == <<clipboard, focus, copies, tabPc, mine, history, user>>

TabTypeOK ==
    /\ {clipboard, kept} \subseteq Contents
    /\ focus \in Tabs \cup {Other}
    /\ copies \subseteq [by : Presses, what : Tabs \cup {Text}]
    /\ tabPc \in [Presses ->
                    {"idle", "read", "press", "poll", "restore", "open"}]
    /\ previous \in [Presses -> Contents]
    /\ polls \in [Presses -> 0 .. MaxPolls]
    /\ {url, asked} \subseteq [Presses -> Tabs \cup {Other}]
    /\ crossed \subseteq Presses
    /\ spoiled \in BOOLEAN
    /\ user \in 0 .. MaxUser

TabInit ==
    /\ clipboard \in {Text, Picture} \cup Tabs
    /\ focus \in Tabs \cup {Other}
    /\ copies = {}
    /\ tabPc = [p \in Presses |-> "idle"]
    /\ previous = [p \in Presses |-> Text]
    /\ polls = [p \in Presses |-> 0]
    /\ url = [p \in Presses |-> Other]
    /\ asked = [p \in Presses |-> Other]
    /\ crossed = {}
    /\ kept = clipboard
    /\ spoiled = FALSE
    /\ user = 0

Active == {p \in Presses : tabPc[p] # "idle"}

\* Something still moves that is not the user.
Busy == Active # {} \/ copies # {}

Step(p, from, to) ==
    /\ tabPc[p] = from
    /\ tabPc' = [tabPc EXCEPT ![p] = to]
    /\ UNCHANGED user

-----------------------------------------------------------------------------
\* The hotkey: the active window has to be a browser.
Press(p) ==
    /\ focus \in Tabs
    /\ Step(p, "idle", "read")
    /\ asked' = [asked EXCEPT ![p] = focus]
    /\ crossed' = IF Busy THEN Active \cup {p} ELSE {}
    /\ spoiled' = (spoiled \/ Busy)
    /\ UNCHANGED <<clipboard, focus, copies, mine, kept>>

ReadPrevious(p) ==
    /\ Step(p, "read", "press")
    /\ previous' = [previous EXCEPT ![p] = clipboard]
    /\ UNCHANGED <<clipboard, focus, copies, polls, url, history>>

\* press_copy_url_sequence(): the keys go to the window that is active now.
\* It will copy, or the keys do nothing there.
PressCopy(p) ==
    /\ Step(p, "press", "poll")
    /\ \/ copies' = copies \cup
              {[by |-> p, what |-> IF focus = Other THEN Text ELSE focus]}
       \/ UNCHANGED copies
    /\ UNCHANGED <<clipboard, focus, mine, history>>

\* The window copies.  A press that no longer waits will not put the old
\* content back.
Copy ==
    /\ \E c \in copies :
           /\ clipboard' = c.what
           /\ copies' = copies \ {c}
           /\ spoiled' = (spoiled \/ tabPc[c.by] \notin {"poll", "restore"})
    /\ UNCHANGED <<focus, tabPc, mine, asked, crossed, kept, user>>

\* (mutant) the old content is not told from a new one
MutIsNewUrl(p) == clipboard \in Tabs

IsNewUrl(p) == clipboard # previous[p] /\ clipboard \in Tabs

\* One turn of the loop of wait_for_url().
PollClipboard(p) ==
    /\ polls[p] < MaxPolls
    /\ polls' = [polls EXCEPT ![p] = @ + 1]
    /\ IF IsNewUrl(p)
       THEN Step(p, "poll", "restore") /\ url' = [url EXCEPT ![p] = clipboard]
       ELSE Step(p, "poll", "poll") /\ UNCHANGED url
    /\ UNCHANGED <<clipboard, focus, copies, previous, history>>

\* (mutant) the last look does not ask for an address
MutFound == clipboard

Found == IF clipboard \in Tabs THEN clipboard ELSE Other

\* After the loop, whatever address is there.
LastLook(p) ==
    /\ polls[p] = MaxPolls
    /\ Step(p, "poll", "restore")
    /\ url' = [url EXCEPT ![p] = Found]
    /\ UNCHANGED <<clipboard, focus, copies, previous, polls, history>>

AsText(content) == IF content = Picture THEN Garbled ELSE content

\* (mutant) the clipboard is put back only if an address was found
MutPutBack(p) == IF url[p] = Other THEN clipboard ELSE AsText(previous[p])

PutBack(p) == AsText(previous[p])

\* The script ends; what it has in memory is gone.
EndPress(p, from) ==
    /\ Step(p, from, "idle")
    /\ previous' = [previous EXCEPT ![p] = Text]
    /\ polls' = [polls EXCEPT ![p] = 0]
    /\ url' = [url EXCEPT ![p] = Other]
    /\ asked' = [asked EXCEPT ![p] = Other]
    /\ crossed' = crossed \ {p}
    /\ UNCHANGED <<copies, kept, spoiled>>

\* clipboard_write(), and the notification if nothing was found.
Restore(p) ==
    /\ IF url[p] = Other
       THEN EndPress(p, "restore")
       ELSE Step(p, "restore", "open") /\ UNCHANGED <<copies, mine, history>>
    /\ clipboard' = PutBack(p)
    /\ UNCHANGED focus

\* launch_app(): the new window becomes the active one and shows the address.
\* Or there is no Chrome and the script exits with 1; or the window is slow to
\* come, and comes as one that the user moves to.
Open(p) ==
    /\ EndPress(p, "open")
    /\ focus' \in {url[p], focus}
    /\ UNCHANGED clipboard

UserActs ==
    /\ user < MaxUser
    /\ user' = user + 1
    /\ crossed' = crossed \cup Active
    /\ UNCHANGED <<copies, tabPc, mine, asked>>

UserCopies ==
    /\ UserActs
    /\ kept' \in {Text, Picture} \cup Tabs
    /\ clipboard' = kept'
    /\ spoiled' = Busy
    /\ UNCHANGED focus

\* To another window, or one of the browser's comes up.
UserMoves ==
    /\ UserActs
    /\ focus' \in (Tabs \cup {Other}) \ {focus}
    /\ UNCHANGED <<clipboard, kept, spoiled>>

TabNext ==
    \/ Copy \/ UserCopies \/ UserMoves
    \/ \E p \in Presses :
           \/ Press(p) \/ ReadPrevious(p) \/ PressCopy(p) \/ PollClipboard(p)
           \/ LastLook(p) \/ Restore(p) \/ Open(p)

TabSpec == TabInit /\ [][TabNext]_tabVars

-----------------------------------------------------------------------------
\* A press that is left alone opens the tab it was meant for.  If the browser
\* has not copied by the last look, and only then, it opens the address the
\* clipboard happened to hold (wait_for_url(), lines 110-112).
OpensTheTab ==
    \A p \in Presses :
        tabPc[p] = "open" /\ p \notin crossed =>
            \/ url[p] = asked[p]
            \/ /\ url[p] = previous[p]
               /\ url[p] \in Tabs
               /\ polls[p] = MaxPolls

\* When all is quiet the clipboard holds what the user copied last, a picture
\* as a text, unless presses met each other or a late copy, or the user copied
\* during one (main(), lines 158-162).
ClipboardRestored ==
    ~Busy /\ ~spoiled => clipboard \in {kept, AsText(kept)}
=============================================================================
