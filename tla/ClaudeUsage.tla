---------------------------- MODULE ClaudeUsage ----------------------------
(***************************************************************************)
(* The Claude half of the Waybar usage modules.  Each Claude session runs  *)
(* arch-bootc-claude-statusline-rate-limits.py, which publishes a record   *)
(* of rate limits; each bar runs arch-bootc-waybar-ai-usage.py every ten   *)
(* seconds, which shows the record, or else the last summary that a run    *)
(* left in the cache.                                                      *)
(*                                                                         *)
(* The record is replaced atomically, the cache is written in place, and   *)
(* nothing locks either.  A summary is represented by the number of the    *)
(* record it was made from.                                                *)
(***************************************************************************)
EXTENDS Naturals

CONSTANTS
    Bars,       \* bars with a custom/claude-usage module, one process each
    Sessions,   \* Claude sessions, one status line hook at a time each
    Nothing,    \* no file, or no value
    Empty,      \* a file that has been opened for writing
    Torn,       \* a file in which two writes are mixed: not JSON
    MaxRecords, \* bound: status line hooks that run
    MaxKills    \* bound: runs of a bar that are killed or cannot write

Summaries == 1 .. MaxRecords

ASSUME UsageAssumption ==
    /\ MaxRecords \in Nat
    /\ MaxKills \in Nat
    /\ {Nothing, Empty, Torn} \cap Summaries = {}
    /\ Nothing # Empty /\ Nothing # Torn /\ Empty # Torn

\* What the hook writes: its number in the order of fetchedAt, and whether
\* rate_limits has a bucket with a percentage.
Record == [at : Summaries, usable : BOOLEAN]
RecordFile == {{}} \cup {{r} : r \in Record}

\* What a bar shows; Nothing is "usage unavailable".
Shown == [of : Summaries \cup {Nothing}, stale : BOOLEAN]

VARIABLES
    record,     \* statusline-rate-limits.json: {}, or the set of the one Record in it
    cache,      \* waybar-ai-claude-usage.json
    records,    \* hooks that have taken their time stamp so far
    hook,       \* hook[s]: the temporary file of the hook of s, if it has one
    pc,         \* where the process of a bar is
    summary,    \* summary[b]: what that process has read
    shown,      \* what the bar shows
    kills,
    last,       \* history: the last summary a run made from the record
    alone,      \* history: no other run has overlapped this run of a bar
    disturbed   \* history: the last write of the cache was lost, cut short
                \* or overlapped by another run

files == <<record, cache>>
ghost == <<last, alone, disturbed>>
vars  == <<files, records, hook, pc, summary, shown, kills, ghost>>

TypeOK ==
    /\ record \in RecordFile
    /\ cache \in Summaries \cup {Nothing, Empty, Torn}
    /\ records \in 0 .. MaxRecords
    /\ hook \in [Sessions -> RecordFile]
    /\ pc \in [Bars -> {"idle", "read", "open", "write", "fallback", "show", "stale"}]
    /\ summary \in [Bars -> Summaries \cup {Nothing}]
    /\ shown \in [Bars -> Shown]
    /\ kills \in 0 .. MaxKills
    /\ last \in Summaries \cup {Nothing}
    /\ alone \in [Bars -> BOOLEAN]
    /\ disturbed \in BOOLEAN

Init ==
    /\ record = {}
    /\ cache = Nothing
    /\ records = 0
    /\ hook = [s \in Sessions |-> {}]
    /\ pc = [b \in Bars |-> "idle"]
    /\ summary = [b \in Bars |-> Nothing]
    /\ shown = [b \in Bars |-> [of |-> Nothing, stale |-> FALSE]]
    /\ kills = 0
    /\ last = Nothing
    /\ alone = [b \in Bars |-> TRUE]
    /\ disturbed = FALSE

Goto(b, label) == pc' = [pc EXCEPT ![b] = label]

-----------------------------------------------------------------------------
(***************************************************************************)
(* The status line hook.  Input that is not a record with rate_limits ends *)
(* it before it does anything.                                             *)
(***************************************************************************)
WriteTemporary(s) ==
    /\ hook[s] = {}
    /\ records < MaxRecords
    /\ records' = records + 1
    /\ \E u \in BOOLEAN :
           hook' = [hook EXCEPT ![s] = {[at |-> records + 1, usable |-> u]}]
    /\ UNCHANGED <<files, pc, summary, shown, kills, ghost>>

Replace(s) ==
    /\ hook[s] # {}
    /\ record' = hook[s]
    /\ hook' = [hook EXCEPT ![s] = {}]
    /\ UNCHANGED <<cache, records, pc, summary, shown, kills, ghost>>

\* The disk is full, or the hook is killed: the record stays.
HookFails(s) ==
    /\ hook[s] # {}
    /\ hook' = [hook EXCEPT ![s] = {}]
    /\ UNCHANGED <<files, records, pc, summary, shown, kills, ghost>>

-----------------------------------------------------------------------------
(***************************************************************************)
(* A run of the module: fetch_claude_usage(), then format_usage().         *)
(***************************************************************************)
Start(b) ==
    /\ pc[b] = "idle"
    /\ Goto(b, "read")
    /\ alone' = [c \in Bars |-> IF c = b
                                THEN \A d \in Bars \ {b} : pc[d] = "idle"
                                ELSE alone[c] /\ pc[c] = "idle"]
    /\ UNCHANGED <<files, records, hook, summary, shown, kills, last, disturbed>>

\* The records read_claude_statusline_usage() makes a summary of.
\* (mutant) a summary in the cache is preferred to the record
MutUsable == {r \in record : r.usable /\ cache \notin Summaries}

Usable == {r \in record : r.usable}

ReadRecord(b) ==
    /\ pc[b] = "read"
    /\ \/ /\ \E r \in Usable : summary' = [summary EXCEPT ![b] = r.at]
          /\ Goto(b, "open")
       \/ /\ Usable = {}
          /\ Goto(b, "fallback")
          /\ UNCHANGED summary
    /\ UNCHANGED <<files, records, hook, shown, kills, ghost>>

\* write_text() opens the file, which empties it, before it writes.
OpenCache(b) ==
    /\ pc[b] = "open"
    /\ cache' = Empty
    /\ disturbed' = TRUE
    /\ Goto(b, "write")
    /\ UNCHANGED <<record, records, hook, summary, shown, kills, last, alone>>

\* (mutant) the cache is written once
MutWritten(b) == IF last = Nothing THEN summary[b] ELSE last

Written(b) == summary[b]

\* If another run has written since this one opened the file, what is longer
\* in its text may stay behind this one's.
WriteCache(b) ==
    /\ pc[b] = "write"
    /\ \/ cache' = Written(b)
       \/ cache \notin {Empty, Written(b)} /\ cache' = Torn
    /\ last' = summary[b]
    /\ disturbed' = ~alone[b]
    /\ Goto(b, "show")
    /\ UNCHANGED <<record, records, hook, summary, shown, kills, alone>>

\* The file cannot be opened or written; write_cached_claude_usage() hides it.
LoseCache(b) ==
    /\ pc[b] \in {"open", "write"}
    /\ kills < MaxKills
    /\ kills' = kills + 1
    /\ last' = summary[b]
    /\ disturbed' = TRUE
    /\ Goto(b, "show")
    /\ UNCHANGED <<files, records, hook, summary, shown, alone>>

\* read_cached_claude_usage(): no file, or one that is not JSON, is None.
Parsed == IF cache \in Summaries THEN cache ELSE Nothing

ReadCache(b) ==
    /\ pc[b] = "fallback"
    /\ summary' = [summary EXCEPT ![b] = Parsed]
    /\ Goto(b, "stale")
    /\ UNCHANGED <<files, records, hook, shown, kills, ghost>>

\* format_usage() and print().
Show(b) ==
    /\ pc[b] \in {"show", "stale"}
    /\ shown' = [shown EXCEPT ![b] = [of    |-> summary[b],
                                      stale |-> pc[b] = "stale"]]
    /\ Goto(b, "idle")
    /\ UNCHANGED <<files, records, hook, summary, kills, ghost>>

\* Waybar is stopped or restarted with a run under way; the bar that comes
\* back shows nothing.
Kill(b) ==
    /\ pc[b] # "idle"
    /\ kills < MaxKills
    /\ kills' = kills + 1
    /\ shown' = [shown EXCEPT ![b] = [of |-> Nothing, stale |-> FALSE]]
    /\ Goto(b, "idle")
    /\ UNCHANGED <<files, records, hook, summary, ghost>>

Poll(b) == Start(b) \/ ReadRecord(b) \/ OpenCache(b) \/ WriteCache(b)
           \/ ReadCache(b) \/ Show(b)

Hook(s) == WriteTemporary(s) \/ Replace(s) \/ HookFails(s)

Next ==
    \/ \E s \in Sessions : Hook(s)
    \/ \E b \in Bars : Poll(b) \/ LoseCache(b) \/ Kill(b)

\* Waybar runs the module every ten seconds ("interval"), and a run ends;
\* nobody has to use Claude, but a hook that has begun ends.
Spec ==
    /\ Init
    /\ [][Next]_vars
    /\ \A b \in Bars : WF_vars(Poll(b))
    /\ \A s \in Sessions : WF_vars(Replace(s) \/ HookFails(s))

-----------------------------------------------------------------------------
\* "showing last successful value" (line 611) is true: what a run has taken
\* from the cache is the last summary that any run has made from the record,
\* unless the write of that one was lost, cut short or overlapped.  In
\* particular a bar only goes back to "usage unavailable" if so.
LastSuccessful ==
    \A b \in Bars : pc[b] = "stale" /\ ~disturbed => summary[b] = last

\* The disturbance ends with the next run that has the cache to itself: from
\* then on the file written in place by write_cached_claude_usage() (lines
\* 320-326) is whole, and is the summary of the last run.
CacheHeals == ~disturbed => cache = last

\* When the sessions have fallen silent, every bar comes to show their record
\* (fetch_claude_usage(), lines 507-511), whatever slow, killed or overlapping
\* runs have done, and keeps showing it.
Silent == records = MaxRecords /\ \A s \in Sessions : hook[s] = {}
Converges ==
    \A b \in Bars :
        Silent /\ Usable # {} ~>
            [](\A r \in Usable : shown[b] = [of |-> r.at, stale |-> FALSE])
=============================================================================
