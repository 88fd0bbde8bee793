----------------------------- MODULE RuleLoading -----------------------------
(***************************************************************************)
(* RuleLoader (platform/layer4_guardrails/rule_engine.py): calls of        *)
(* get_rules and load_rules on one loader, while files are edited, added   *)
(* and removed and days pass.  Directory scans and file reads run on       *)
(* threads, file after file; between them the event loop runs other calls. *)
(*                                                                         *)
(* Init, Next and Spec have names of their own, since GuardrailProofs      *)
(* extends this module beside ApprovalQueue.                               *)
(***************************************************************************)
EXTENDS Naturals

CONSTANTS
  File,        \* the YAML files that may be in the rules directory
  GetCall,     \* calls of get_rules
  LoadCall,    \* calls of load_rules
  MaxChanges,    \* bound on changes of the files and the date
  MaxDay       \* bound on the days that pass

ASSUME LoadingAssumption ==
  GetCall \cap LoadCall = {} /\ MaxChanges \in Nat \ {0} /\ MaxDay \in Nat

Call == GetCall \cup LoadCall

\* What a file may hold: a rule in effect, one that takes effect on day 1, or what is
\* not a rule.
Content == {"rule", "later", "malformed"}

Absent == [mtime |-> 0, content |-> "absent"]
NoFiles == [f \in {} |-> 0]

\* A call: where it is, the files it has not come to yet, the snapshot it took, the
\* rules it read or returned, and the day it read them for.
Idle ==
  [at |-> "idle", left |-> {}, seen |-> NoFiles, found |-> NoFiles,
   today |-> 0, overlapped |-> FALSE]

VARIABLES
  directory,   \* whether the rules directory exists
  disk,        \* disk[f]: the file, with its modification time
  day,         \* today
  rules,       \* the loader's rules, by the file they are from
  snapshot,    \* the loader's snapshot: modification times, by file
  loading,     \* loading[c]: how far call c has come
  quiet,       \* history: quiet[c]: nothing has changed since c was made,
               \* and c returned no doubtful rules
  doubtful,    \* history: the rules kept are of another day, or a load_rules
               \* overlapped a change or another call's load
  changes

loader == <<rules, snapshot>>
world == <<directory, disk, day, changes>>
loadingVars == <<world, loader, loading, quiet, doubtful>>

Present == {f \in File : disk[f] # Absent}

\* _load_rules_sync's test of the dates.
ActiveOn(content, today) == content # "later" \/ today >= 1

\* What get_rules promises: the active rules of the files there are.
ActiveRules ==
  LET active == {f \in Present : ActiveOn(disk[f].content, day)}
  IN [f \in active |-> disk[f].content]

LoadingInit ==
  /\ directory \in BOOLEAN
  /\ disk \in [File -> {Absent, [mtime |-> 1, content |-> "rule"]}]
  /\ ~directory => Present = {}
  /\ day      = 0
  /\ rules    = NoFiles
  /\ snapshot = NoFiles
  /\ loading  = [c \in Call |-> Idle]
  /\ quiet    = [c \in Call |-> FALSE]
  /\ doubtful = FALSE
  /\ changes    = 1

-----------------------------------------------------------------------------
(* The world around the loader.                                            *)

UnderWay(c) == loading[c].at \notin {"idle", "returned", "over"}

\* Whatever changes, calls under way are not quiet any more, and what a load_rules
\* under way has kept, or will keep, is doubtful.
Disturb ==
  /\ quiet' = [c \in Call |-> FALSE]
  /\ doubtful' = (doubtful \/ day' # day \/ \E c \in LoadCall : UnderWay(c))
  /\ loading' = [c \in Call |->
       IF loading[c].at = "returned"
       THEN [Idle EXCEPT !.at = "over"]      \* of an answer of the past nothing is asked
       ELSE [loading[c] EXCEPT !.overlapped = @ \/ (c \in LoadCall /\ UnderWay(c))]]

Changed == changes < MaxChanges /\ changes' = changes + 1

\* Somebody writes or removes a file.  What is written gets a modification time
\* that no file has had before.
Edit(f) ==
  /\ directory
  /\ Changed /\ UNCHANGED day
  /\ disk' \in {[disk EXCEPT ![f] = [mtime |-> changes', content |-> content]] :
                  content \in Content}
               \cup {[disk EXCEPT ![f] = Absent]}
  /\ Disturb
  /\ UNCHANGED <<directory, loader>>

\* The directory is put into place with its files, or goes away with them.
Deploy ==
  /\ Changed /\ UNCHANGED day
  /\ directory' = ~directory
  /\ disk' = [f \in File |-> IF directory' THEN [mtime |-> changes', content |-> "rule"] ELSE Absent]
  /\ Disturb
  /\ UNCHANGED loader

\* Midnight (UTC): no file changes, but the rules in effect may.
Midnight ==
  /\ day < MaxDay
  /\ day' = day + 1
  /\ Changed
  /\ Disturb
  /\ UNCHANGED <<directory, disk, loader>>

-----------------------------------------------------------------------------
(* The calls.                                                              *)

Step(c, from, to) == loading[c].at = from /\ loading' = [loading EXCEPT ![c] = to]

Raise(c, from) ==
  /\ Step(c, from, [Idle EXCEPT !.at = "over"])
  /\ UNCHANGED <<world, loader, quiet, doubtful>>

Return(c, from, what) == Step(c, from, [Idle EXCEPT !.at = "returned", !.found = what])

Trust(c, trusted) == quiet' = [quiet EXCEPT ![c] = @ /\ trusted]

\* get_rules begins with a snapshot, load_rules with loading.
Begin(c) ==
  /\ Step(c, "idle", [Idle EXCEPT !.at = IF c \in GetCall THEN "listing" ELSE "opening"])
  /\ quiet' = [quiet EXCEPT ![c] = TRUE]
  /\ UNCHANGED <<world, loader, doubtful>>

With(function, f, value) ==
  [g \in DOMAIN function \cup {f} |-> IF g = f THEN value ELSE function[g]]

\* _current_snapshot: list the directory, empty if it is not there, ...
List(c) ==
  /\ Step(c, "listing", [loading[c] EXCEPT !.at = "stating", !.left = Present, !.seen = NoFiles])
  /\ UNCHANGED <<world, loader, quiet, doubtful>>

\* ... and stat() one file after another; one that is gone is an error.
Stat(c, f) ==
  /\ f \in loading[c].left
  /\ IF f \in Present
     THEN /\ Step(c, "stating", [loading[c] EXCEPT !.left = @ \ {f},
                                              !.seen = With(@, f, disk[f].mtime)])
          /\ UNCHANGED <<world, loader, quiet, doubtful>>
     ELSE Raise(c, "stating")

Stated(c) == loading[c].left = {}

\* get_rules: nothing has changed since the rules were loaded, or they are loaded.
Compare(c) ==
  /\ c \in GetCall /\ Stated(c)
  /\ IF loading[c].seen = snapshot
     THEN Return(c, "stating", rules) /\ Trust(c, ~doubtful)
     ELSE Step(c, "stating", [loading[c] EXCEPT !.at = "opening"]) /\ UNCHANGED quiet
  /\ UNCHANGED <<world, loader, doubtful>>

\* _load_rules_sync: without the directory, an error; ...
Open(c) ==
  IF directory
  THEN /\ Step(c, "opening", [loading[c] EXCEPT !.at = "scanning"])
       /\ UNCHANGED <<world, loader, quiet, doubtful>>
  ELSE Raise(c, "opening")

\* ... the date and the files of the directory, none if it has gone meanwhile; ...
Scan(c) ==
  /\ Step(c, "scanning", [loading[c] EXCEPT !.at = "reading", !.left = Present, !.today = day])
  /\ UNCHANGED <<world, loader, quiet, doubtful>>

\* ... one file read after another, an error if it is gone or holds no rule.
Read(c, f) ==
  LET content == disk[f].content
  IN /\ f \in loading[c].left
     /\ IF content \in {"absent", "malformed"}
        THEN Raise(c, "reading")
        ELSE /\ Step(c, "reading",
                  [loading[c] EXCEPT
                     !.left = @ \ {f},
                     !.found = IF ActiveOn(content, loading[c].today) THEN With(@, f, content) ELSE @])
             /\ UNCHANGED <<world, loader, quiet, doubtful>>

\* Faulty variant: the snapshot kept is of the files after the load.
SnapshotAfterwards(c) == [f \in Present |-> disk[f].mtime]

SnapshotBefore(c) == loading[c].seen

\* get_rules keeps the rules and the snapshot that was taken before they were read.
Install(c) ==
  /\ c \in GetCall /\ loading[c].left = {}
  /\ Return(c, "reading", loading[c].found)
  /\ rules' = loading[c].found
  /\ snapshot' = SnapshotBefore(c)
  /\ doubtful' = (loading[c].today # day \/ \E l \in LoadCall : UnderWay(l))
  /\ UNCHANGED <<world, quiet>>

\* load_rules keeps the rules, takes its snapshot after that ...
Replace(c) ==
  /\ c \in LoadCall /\ loading[c].left = {}
  /\ Step(c, "reading", [loading[c] EXCEPT !.at = "listing"])
  /\ rules' = loading[c].found
  /\ doubtful' = loading[c].overlapped
  /\ UNCHANGED <<world, snapshot, quiet>>

\* ... and returns what rules there are by then.
FinishLoad(c) ==
  /\ c \in LoadCall /\ Stated(c)
  /\ Return(c, "stating", rules)
  /\ snapshot' = loading[c].seen
  /\ doubtful' = (doubtful \/ loading[c].overlapped)
  /\ Trust(c, ~doubtful')
  /\ UNCHANGED <<world, rules>>

-----------------------------------------------------------------------------
LoadingNext ==
  \/ \E f \in File : Edit(f)
  \/ Deploy \/ Midnight
  \/ \E c \in Call :
       \/ Begin(c) \/ List(c) \/ Compare(c) \/ Open(c) \/ Scan(c)
       \/ \E f \in File : Stat(c, f) \/ Read(c, f)
       \/ Install(c) \/ Replace(c) \/ FinishLoad(c)

LoadingSpec == LoadingInit /\ [][LoadingNext]_loadingVars

-----------------------------------------------------------------------------
(* Properties.                                                             *)

\* Every variable holds a value of its kind.
LoadingTypeOK ==
  /\ directory \in BOOLEAN
  /\ disk \in [File -> {Absent} \cup [mtime : 1 .. MaxChanges, content : Content]]
  /\ day \in 0 .. MaxDay
  /\ DOMAIN rules \subseteq File /\ DOMAIN snapshot \subseteq File
  /\ \A c \in Call : DOMAIN loading[c] = DOMAIN Idle
  /\ quiet \in [Call -> BOOLEAN]
  /\ doubtful \in BOOLEAN
  /\ changes \in 1 .. MaxChanges

\* README.md:288, rules hot-reload: where a call during which nothing changed returns,
\* then each file there is has its rule in the answer if the rule is active and not
\* if it is not, and none is malformed - whatever changes, failed loads and slower or
\* overlapping calls of get_rules came before.  Not promised, since the code does not
\* keep it: the answer from rules kept on another day, from what a load_rules kept that
\* overlapped a change or another load, and without a directory; nor that no rule
\* is left of a file that has been removed.
RulesFollowFiles ==
  \A c \in Call :
    loading[c].at = "returned" /\ quiet[c] /\ directory =>
      \A f \in Present :
        /\ disk[f].content # "malformed"
        /\ IF f \in DOMAIN ActiveRules
           THEN f \in DOMAIN loading[c].found /\ loading[c].found[f] = ActiveRules[f]
           ELSE f \notin DOMAIN loading[c].found

=============================================================================
