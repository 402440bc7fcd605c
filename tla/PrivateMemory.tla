---------------------------- MODULE PrivateMemory -----------------------------
(***************************************************************************)
(* What address spaces promise to programs: a process has its own data     *)
(* pages, which nobody else writes; a forked child starts with a copy of   *)
(* its parent's; a shared page is one page for all who have it attached,   *)
(* and lasts as long as somebody has.  There is one text for all processes *)
(* and any of them may find that another has written in it.                *)
(* AddressSpace is checked to implement this.                              *)
(***************************************************************************)
CONSTANTS DataPage, CodePage, Slot, ShmId, NoId, Word, NoPage

VARIABLES
  own,       \* the data pages of every live process
  attached,  \* which shared page each of its slots holds, or NoId
  page,      \* what each shared page holds, or NoPage
  text       \* what the code pages hold

pmVars == <<own, attached, page, text>>

With(f, p, x) == [q \in DOMAIN f \cup {p} |-> IF q = p THEN x ELSE f[q]]
Without(f, p) == [q \in DOMAIN f \ {p} |-> f[q]]

PMInit ==
  /\ \E p \in DOMAIN own : DOMAIN own = {p} /\ own[p] \in [DataPage -> Word]
  /\ attached = [p \in DOMAIN own |-> [s \in Slot |-> NoId]]
  /\ page = [id \in ShmId |-> NoPage]
  /\ text \in [CodePage -> Word]

Write(p, i, w) ==
  /\ own' = [own EXCEPT ![p][i] = w]
  /\ UNCHANGED <<attached, page, text>>

WriteShared(p, s, w) ==
  /\ attached[p][s] # NoId
  /\ page' = [page EXCEPT ![attached[p][s]] = w]
  /\ UNCHANGED <<own, attached, text>>

\* The first process has it read-only, the forked ones do not.
WriteText(i, w) ==
  /\ text' = [text EXCEPT ![i] = w]
  /\ UNCHANGED <<own, attached, page>>

\* c is a new process.
Fork(p, c) ==
  /\ c \notin DOMAIN own
  /\ own' = With(own, c, own[p])
  /\ attached' = With(attached, c, attached[p])
  /\ UNCHANGED <<page, text>>

\* A page that is made may hold anything; the others stay.
Make(id) ==
  /\ page' = [page EXCEPT ![id] = IF @ = NoPage THEN page'[id] ELSE @]
  /\ page'[id] \in Word

Attach(p, s, id) ==
  /\ attached[p][s] = NoId
  /\ attached' = [attached EXCEPT ![p][s] = id]
  /\ Make(id)
  /\ UNCHANGED <<own, text>>

\* Nothing is destroyed but pages that nobody has any more.
Shrink ==
  \A id \in ShmId :
    \/ page'[id] = page[id]
    \/ page'[id] = NoPage /\ \A p \in DOMAIN attached', s \in Slot : attached'[p][s] # id

Detach(p, s) ==
  /\ attached[p][s] # NoId
  /\ attached' = [attached EXCEPT ![p][s] = NoId]
  /\ Shrink
  /\ UNCHANGED <<own, text>>

Exit(p) ==
  /\ own' = Without(own, p)
  /\ attached' = Without(attached, p)
  /\ Shrink
  /\ UNCHANGED text

Remove == Shrink /\ UNCHANGED <<own, attached, text>>

PMNext ==
  \/ \E p \in DOMAIN own :
       \/ \E i \in DataPage, w \in Word : Write(p, i, w)
       \/ \E s \in Slot : Detach(p, s) \/ \E w \in Word : WriteShared(p, s, w)
       \/ \E s \in Slot, id \in ShmId : Attach(p, s, id)
       \/ \E c \in DOMAIN own' : Fork(p, c)
       \/ Exit(p)
  \/ \E i \in CodePage, w \in Word : WriteText(i, w)
  \/ \E id \in ShmId : Make(id) /\ UNCHANGED <<own, attached, text>>
  \/ Remove

PMSpec == PMInit /\ [][PMNext]_pmVars
===============================================================================
