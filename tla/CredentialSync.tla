----------------------------- MODULE CredentialSync -----------------------------
(* One login, used by several attempts at once. Each attempt stages a private  *)
(* copy; its CLI may refresh it, which spends the one it had; after a launch   *)
(* the refresh is written back while the source still is what was staged. The  *)
(* attempts take turns by a lock on the source, a login of the user does not.  *)
EXTENDS Integers, FiniteSets

CONSTANTS None, Attempts, MaxLogins

VARIABLES
  source,    \* the credential the user selected, None when removed
  target,    \* [attempt -> its private copy, None before it is staged]
  seed,      \* [attempt -> the digest bound to the source, None before]
  status,    \* [attempt -> what the last synchronisation found]
  step,      \* [attempt -> where its runner is]
  lock,      \* the attempt that holds the source's lock
  read,      \* what the holder read of the source
  parent,    \* [credential -> the one it refreshed, None for a login]
  unlocked,  \* logins made while the holder was about to replace the source
  wronged    \* credentials a write back replaced without a right to

credentialVars == <<source, target, seed, status, step, lock, read, parent, unlocked, wronged>>

Init ==
  /\ parent = [c \in {1} |-> None] /\ source = 1
  /\ target = [a \in Attempts |-> None] /\ seed = [a \in Attempts |-> None]
  /\ status = [a \in Attempts |-> "none"] /\ step = [a \in Attempts |-> "idle"]
  /\ lock = None /\ read = None /\ unlocked = {} /\ wronged = {}

Issued == DOMAIN parent
Next1 == Cardinality(Issued) + 1
Issue(from) == parent' = [c \in Issued \cup {Next1} |-> IF c = Next1 THEN from ELSE parent[c]]
At(a, s, t) == step[a] = s /\ step' = [step EXCEPT ![a] = t]

\* The credential itself and all it was refreshed from.
Ancestors(c) ==
  LET up[d \in Issued] == {d} \cup IF parent[d] = None THEN {} ELSE up[parent[d]] IN up[c]

\* stage_file: the record is written before the copy; a run that finds the one
\* without the other binds what it copies now.
Stage(a) ==
  /\ lock = None /\ source # None
  /\ IF target[a] = None THEN At(a, "idle", "staging") /\ lock' = a /\ read' = source /\ seed' = [seed EXCEPT ![a] = source]
     ELSE At(a, "idle", "run") /\ UNCHANGED <<lock, read, seed>>
  /\ UNCHANGED <<source, target, status, parent, unlocked, wronged>>
Publish(a) ==
  /\ At(a, "staging", "run") /\ lock' = None
  /\ target' = [target EXCEPT ![a] = read]
  /\ UNCHANGED <<source, seed, status, read, parent, unlocked, wronged>>

\* The CLI refreshes its own copy and ends, or is killed.
Refresh(a) ==
  /\ step[a] = "run" /\ Next1 <= MaxLogins
  /\ Issue(target[a]) /\ target' = [target EXCEPT ![a] = Next1]
  /\ UNCHANGED <<source, seed, status, step, lock, read, unlocked, wronged>>
Ends(a) ==
  /\ At(a, "run", "sync")
  /\ UNCHANGED <<source, target, seed, status, lock, read, parent, unlocked, wronged>>

\* sync_files, under the lock: what the source is now decides.
Found(a) ==
  CASE source = None -> "source_removed"
    [] source = target[a] -> "unchanged"
    [] source # None /\ source # target[a] /\ target[a] = seed[a] -> "source_changed"
    [] source # None /\ source # target[a] /\ target[a] # seed[a] /\ source = seed[a] -> "refreshed"
    [] OTHER -> "refresh_conflict"
Sync(a) ==
  /\ lock = None
  /\ read' = source
  /\ IF Found(a) = "refreshed"
     THEN At(a, "sync", "write") /\ lock' = a /\ unlocked' = {} /\ UNCHANGED <<seed, status>>
     ELSE /\ At(a, "sync", "idle") /\ status' = [status EXCEPT ![a] = Found(a)]
          /\ seed' = IF Found(a) = "unchanged" THEN [seed EXCEPT ![a] = source] ELSE seed
          /\ UNCHANGED <<lock, unlocked>>
  /\ UNCHANGED <<source, target, parent, wronged>>
WriteBack(a) ==
  /\ At(a, "write", "record")
  /\ source' = target[a]
  /\ wronged' = wronged \cup ({source} \ ({None} \cup Ancestors(target[a]) \cup unlocked))
  /\ UNCHANGED <<target, seed, status, lock, read, parent, unlocked>>
Record(a) ==
  /\ At(a, "record", "idle") /\ lock' = None
  /\ seed' = [seed EXCEPT ![a] = target[a]] /\ status' = [status EXCEPT ![a] = "refreshed"]
  /\ UNCHANGED <<source, target, read, parent, unlocked, wronged>>

\* The user logs in or out with the CLI itself, which knows no lock.
Login ==
  /\ Next1 <= MaxLogins /\ Issue(None) /\ source' = Next1
  /\ unlocked' = IF lock = None THEN unlocked ELSE unlocked \cup {Next1}
  /\ UNCHANGED <<target, seed, status, step, lock, read, wronged>>
Logout ==
  /\ source # None /\ source' = None
  /\ UNCHANGED <<target, seed, status, step, lock, read, parent, unlocked, wronged>>
\* The runner is killed; the lock dies with it.
Crash(a) ==
  /\ step[a] # "idle" /\ step' = [step EXCEPT ![a] = "idle"]
  /\ lock' = IF lock = a THEN None ELSE lock
  /\ UNCHANGED <<source, target, seed, status, read, parent, unlocked, wronged>>

Next ==
  \/ \E a \in Attempts: Stage(a) \/ Publish(a) \/ Refresh(a) \/ Ends(a) \/ Sync(a) \/ WriteBack(a)
                        \/ Record(a) \/ Crash(a)
  \/ Login \/ Logout

\* Whatever attempts race, crash between two writes or refresh again, a write
\* back only moves the source along its own line of refreshes: the refresh of
\* another attempt is never replaced, nor a login, but for one the user makes
\* between the comparison and the write. And a copy always descends from the
\* credential its record names, which is what the comparison relies on.
CredentialsHold ==
  /\ wronged = {}
  /\ \A a \in Attempts: target[a] # None => seed[a] # None /\ seed[a] \in Ancestors(target[a])
=============================================================================
