------------------------ MODULE VaultOwnershipProofs ------------------------
(***************************************************************************)
(* Proofs about VaultOwnership for any set of computers and any number of  *)
(* requests and cuts.  What a request publishes was prepared from a root   *)
(* it read several steps earlier; the first inductive invariant, IInv,     *)
(* says what is known of that root at the step where the request stands.   *)
(* The second, NInv, builds on it and follows Kopia's maintenance owner    *)
(* through the takeovers and connections of several computers.             *)
(***************************************************************************)
EXTENDS VaultOwnership, TLAPS

Publishing == {"put", "copy", "readback"}

\* The step a request takes next, or after the publication it is making.
Doing(c) == IF pc[c] \in Publishing THEN pub[c].after ELSE pc[c]

\* The root that step will work on.
Seen(c) == IF pc[c] \in Publishing THEN pub[c].data ELSE view[c]

TakeoverSteps ==
    {"align", "phase", "advance", "reread", "final", "published", "complete", "care"}
ConnectSteps == {"profile", "transition", "connectAlign", "connectFinal", "confirm", "attach"}

\* A profile that was created stays.
Known(p) == prof[p] \in Attachments

\* A publication in progress writes a root that may follow the one it expects.
PublicationSound(c) ==
    pc[c] \in Publishing =>
        /\ pub[c] \in Publications
        /\ pub[c].after \notin Publishing
        /\ Follows(pub[c].data, pub[c].expected)
        /\ Known(pub[c].data.owner)

\* A takeover works for the profile of the saved vault.
TakeoverSound(c) ==
    Doing(c) \in TakeoverSteps =>
        /\ rec[c] \in Records /\ att[c] \in Saved /\ rec[c].to = Own(c)
        /\ Doing(c) = "reread" => rec[c].state # "reviewed"

\* Where a takeover writes a root over the one it has seen, that one carries its marker.
SeenSound(c) ==
    Doing(c) \in {"align", "phase", "final"} =>
        /\ Seen(c) \in Roots /\ Seen(c).transfer \in Transfers
        /\ Seen(c).transfer.to = Own(c)
        /\ Known(Seen(c).owner)
        /\ Doing(c) = "phase" \/ (Doing(c) = "align" /\ rec[c].state = "reviewed")
              => Seen(c).transfer.phase = "reviewed"

\* The roots a connection saved when it was reviewed follow each other.
IntentSound(c) ==
    intent[c] # None =>
        /\ intent[c].expected.transfer = None
        /\ intent[c].marker = Marked(intent[c].expected, intent[c].op,
                                     intent[c].expected.owner, intent[c].profile)
        /\ intent[c].final = OwnedBy(intent[c].marker, intent[c].profile)
        /\ Known(intent[c].expected.owner)

ConnectSound(c) ==
    Doing(c) \in ConnectSteps =>
        /\ intent[c] \in Intents
        /\ Doing(c) # "profile" => Known(intent[c].profile)

SavedSound(c) == att[c] # None => Known(Own(c))

Sound(c) ==
    /\ PublicationSound(c) /\ TakeoverSound(c) /\ SeenSound(c)
    /\ IntentSound(c) /\ ConnectSound(c) /\ SavedSound(c)

IInv == TypeOK /\ Known(root.owner) /\ \A c \in Computers : Sound(c)
-----------------------------------------------------------------------------
(* The three forms of a published root.                                      *)

\* A marker is put on a root without one.
LEMMA MarkedRoot ==
    ASSUME NEW r \in Roots, NEW op \in Ops, NEW from \in Computers, NEW to \in Computers
    PROVE  /\ Marked(r, op, from, to) \in Roots
           /\ Marked(r, op, from, to).owner = r.owner
           /\ Marked(r, op, from, to).transfer \in Transfers
           /\ Marked(r, op, from, to).transfer.to = to
           /\ Marked(r, op, from, to).transfer.phase = "reviewed"
           /\ r.transfer = None => Follows(Marked(r, op, from, to), r)
<1> DEFINE t == [op |-> op, from |-> from, to |-> to, phase |-> "reviewed"]
<1>1. t \in Transfers /\ t.to = to /\ t.phase = "reviewed"
  BY DEF Transfers, Phases
<1>2. Marked(r, op, from, to) = [rev |-> r.rev + 1, owner |-> r.owner, transfer |-> t]
  BY DEF Marked, Roots
<1>3. r.rev \in Nat /\ r.owner \in Computers
  BY DEF Roots
<1> HIDE DEF t
<1> QED
  BY <1>1, <1>2, <1>3 DEF Roots, Follows

\* A marker moves to its second phase.
LEMMA AppliedRoot ==
    ASSUME NEW r \in Roots, r.transfer \in Transfers
    PROVE  /\ Applied(r) \in Roots
           /\ Applied(r).owner = r.owner
           /\ r.transfer.phase = "reviewed" => Follows(Applied(r), r)
<1> DEFINE t == [r.transfer EXCEPT !.phase = "native_owner_applied"]
<1>1. t \in Transfers
  BY DEF Transfers, Phases
<1>2. Applied(r) = [rev |-> r.rev + 1, owner |-> r.owner, transfer |-> t]
  BY DEF Applied, Roots
<1>3. r.rev \in Nat /\ r.owner \in Computers
  BY DEF Roots
<1> HIDE DEF t
<1> QED
  BY <1>1, <1>2, <1>3, NoneIsNoData DEF Roots, Follows

\* The ownership moves to the profile the marker names.
LEMMA OwnedRoot ==
    ASSUME NEW r \in Roots, NEW p \in Computers
    PROVE  /\ OwnedBy(r, p) \in Roots
           /\ OwnedBy(r, p).owner = p
           /\ r.transfer \in Transfers /\ r.transfer.to = p => Follows(OwnedBy(r, p), r)
  BY NoneIsNoData DEF OwnedBy, Roots, Follows

\* Other schedules for the vault.
LEMMA CareRoot ==
    ASSUME NEW r \in Roots, r.transfer = None
    PROVE  /\ [r EXCEPT !.rev = @ + 1] \in Roots
           /\ [r EXCEPT !.rev = @ + 1].owner = r.owner
           /\ Follows([r EXCEPT !.rev = @ + 1], r)
  BY DEF Roots, Follows

-----------------------------------------------------------------------------

LEMMA InitIInv == Init => IInv
<1> SUFFICES ASSUME Init PROVE IInv
  OBVIOUS
<1> USE OwnershipConstants DEF Init
<1>1. TypeOK
  BY DEF TypeOK, Roots, Attachments, Saved, Steps
<1>2. Known(root.owner)
  BY DEF Known, Attachments
<1>3. ASSUME NEW c \in Computers PROVE Sound(c)
  BY DEF Sound, PublicationSound, TakeoverSound, SeenSound, IntentSound, ConnectSound,
     SavedSound, Doing, Publishing, TakeoverSteps, ConnectSteps, Known, Own, Attachments
<1> QED
  BY <1>1, <1>2, <1>3 DEF IInv

-----------------------------------------------------------------------------
(* A step of one computer leaves what is known of the others.                *)

Only(c) ==
    \A d \in Computers \ {c} :
        /\ att'[d] = att[d] /\ rec'[d] = rec[d] /\ intent'[d] = intent[d]
        /\ pc'[d] = pc[d] /\ view'[d] = view[d] /\ pub'[d] = pub[d]

ProfilesStay == \A p \in Computers : Known(p) => Known(p)'

LEMMA OthersSound ==
    ASSUME IInv, TypeOK', ProfilesStay, NEW c \in Computers, Only(c),
           NEW d \in Computers \ {c}
    PROVE  Sound(d)'
<1>1. /\ att'[d] = att[d] /\ rec'[d] = rec[d] /\ intent'[d] = intent[d]
      /\ pc'[d] = pc[d] /\ view'[d] = view[d] /\ pub'[d] = pub[d]
  BY DEF Only
<1>2. Sound(d)
  BY DEF IInv
<1>3. /\ Doing(d)' = Doing(d) /\ Seen(d)' = Seen(d) /\ Own(d)' = Own(d)
  BY <1>1 DEF Doing, Seen, Own
<1>4. \A r \in Roots : Known(r.owner) => Known(r.owner)'
  BY DEF ProfilesStay, Roots
<1>5. PublicationSound(d)'
  BY <1>1, <1>2, <1>4 DEF Sound, PublicationSound, Publications
<1>6. TakeoverSound(d)'
  BY <1>1, <1>2, <1>3 DEF Sound, TakeoverSound
<1>7. SeenSound(d)'
  BY <1>1, <1>2, <1>3, <1>4 DEF Sound, SeenSound
<1>8. IntentSound(d)' /\ ConnectSound(d)'
  BY <1>1, <1>2, <1>3, <1>4 DEF Sound, IntentSound, ConnectSound, IInv, TypeOK, Intents, ProfilesStay
<1>9. SavedSound(d)'
  BY <1>1, <1>2, <1>3 DEF Sound, SavedSound, IInv, TypeOK, Saved, Own, ProfilesStay
<1> QED
  BY <1>5, <1>6, <1>7, <1>8, <1>9 DEF Sound
-----------------------------------------------------------------------------
(* What the common moves of a request leave true.                            *)

LEMMA StepByOne ==
    ASSUME IInv, NEW c \in Computers, TypeOK', Only(c), ProfilesStay,
           Known(root.owner)', Sound(c)'
    PROVE  IInv'
<1>1. ASSUME NEW d \in Computers PROVE Sound(d)'
  BY OthersSound
<1> QED
  BY <1>1 DEF IInv

\* The parts of TypeOK that a request moves.
PlaceOK ==
    /\ pc \in [Computers -> Steps] /\ view \in [Computers -> Roots \cup {None}]
    /\ pub \in [Computers -> Publications \cup {None}] /\ aligned \subseteq Computers

PlaceOnly(c) ==
    \A d \in Computers \ {c} : pc'[d] = pc[d] /\ view'[d] = view[d] /\ pub'[d] = pub[d]

LEMMA GotoPlace ==
    ASSUME TypeOK, NEW c \in Computers, NEW step \in Steps \ Publishing, Goto(c, step),
           UNCHANGED view, aligned' \subseteq Computers
    PROVE  /\ PlaceOK' /\ PlaceOnly(c) /\ PublicationSound(c)'
           /\ Doing(c)' = step /\ Seen(c)' = view[c]
  BY DEF Goto, TypeOK, PlaceOK, PlaceOnly, PublicationSound, Doing, Seen

LEMMA GotoReading ==
    ASSUME TypeOK, NEW c \in Computers, NEW step \in Steps \ Publishing, Goto(c, step),
           view' = [view EXCEPT ![c] = root], UNCHANGED aligned
    PROVE  /\ PlaceOK' /\ PlaceOnly(c) /\ PublicationSound(c)'
           /\ Doing(c)' = step /\ Seen(c)' = root
  BY DEF Goto, TypeOK, PlaceOK, PlaceOnly, PublicationSound, Doing, Seen

LEMMA StopPlace ==
    ASSUME TypeOK, NEW c \in Computers, Stop(c)
    PROVE  /\ PlaceOK' /\ PlaceOnly(c) /\ PublicationSound(c)'
           /\ TakeoverSound(c)' /\ SeenSound(c)' /\ ConnectSound(c)'
  BY DEF Stop, TypeOK, PlaceOK, PlaceOnly, PublicationSound, Doing, Seen, Steps, Publishing,
     TakeoverSound, SeenSound, ConnectSound, TakeoverSteps, ConnectSteps

LEMMA PublishPlace ==
    ASSUME TypeOK, NEW c \in Computers, NEW data \in Roots, NEW expected \in Roots,
           NEW name \in Names \cup {None}, NEW after \in Steps \ Publishing,
           Publish(c, data, expected, name, after), UNCHANGED <<prof, aligned>>,
           view' = view \/ view' = [view EXCEPT ![c] = root],
           Follows(data, expected), Known(data.owner)
    PROVE  /\ PlaceOK' /\ PlaceOnly(c) /\ PublicationSound(c)'
           /\ Doing(c)' = after /\ Seen(c)' = data
<1>1. Publication(data, expected, name, after) \in Publications
  BY DEF Publication, Publications
<1>2. pub'[c] = Publication(data, expected, name, after) /\ pc'[c] = "put"
  BY DEF Publish, TypeOK
<1>3. pub'[c].data = data /\ pub'[c].expected = expected /\ pub'[c].after = after
  BY <1>2 DEF Publication
<1>4. PlaceOK' /\ PlaceOnly(c)
  BY <1>1 DEF Publish, TypeOK, PlaceOK, PlaceOnly, Steps
<1>5. Known(data.owner)'
  BY DEF Known
<1>6. PublicationSound(c)'
  BY <1>1, <1>2, <1>3, <1>5 DEF PublicationSound, Publishing
<1> QED
  BY <1>2, <1>3, <1>4, <1>6 DEF Doing, Seen, Publishing

\* A step that keeps the saved vault, the connection and the profiles.
LEMMA SavedKept ==
    ASSUME IInv, NEW c \in Computers, UNCHANGED <<att, intent, prof>>
    PROVE  IntentSound(c)' /\ SavedSound(c)' /\ Own(c)' = Own(c)
  BY DEF IInv, Sound, IntentSound, SavedSound, Own, Known

LEMMA StorageKept ==
    ASSUME IInv, UNCHANGED prof, UNCHANGED root
    PROVE  ProfilesStay /\ Known(root.owner)'
  BY DEF IInv, ProfilesStay, Known

\* A step that leaves the root and the profiles, and moves only this computer's request
\* and its takeover.
LEMMA RequestMoves ==
    ASSUME IInv, NEW c \in Computers, UNCHANGED <<root, prof, att, intent>>,
           pending' \in [Names -> Roots \cup {None}], native' \in Computers, begun' \in 0..MaxOps, cuts' \in 0..MaxCuts,
           rec' \in [Computers -> Records \cup {None}],
           \A d \in Computers \ {c} : rec'[d] = rec[d],
           PlaceOK', PlaceOnly(c), PublicationSound(c)',
           TakeoverSound(c)', SeenSound(c)', ConnectSound(c)'
    PROVE  IInv'
<1>1. TypeOK'
  BY DEF IInv, TypeOK, PlaceOK
<1>2. Only(c)
  BY DEF Only, PlaceOnly
<1>3. Sound(c)'
  BY SavedKept DEF Sound
<1> QED
  BY <1>1, <1>2, <1>3, StorageKept, StepByOne

-----------------------------------------------------------------------------
(* One lemma per action: the publication.                                    *)

LEMMA PutStep == ASSUME IInv, NEW c \in Computers, Put(c) PROVE IInv'
<1> USE DEF stored, saved
<1>1. /\ TypeOK /\ pc[c] = "put" /\ pub[c] \in Publications
      /\ Sound(c) /\ Doing(c) = pub[c].after /\ Seen(c) = pub[c].data
  BY DEF IInv, Put, Sound, PublicationSound, Publishing, Doing, Seen
<1>2. pending' \in [Names -> Roots \cup {None}]
  BY <1>1 DEF Put, TypeOK, Publications
<1>3. UNCHANGED <<root, prof, native, att, rec, intent, begun, cuts>>
  BY DEF Put
<1>4. CASE Stop(c)
  BY <1>1, <1>2, <1>3, <1>4, StopPlace, RequestMoves DEF TypeOK
<1>5. CASE Goto(c, "copy") /\ UNCHANGED <<view, aligned>>
  <2>1. PlaceOK' /\ PlaceOnly(c)
    BY <1>1, <1>5 DEF Goto, TypeOK, PlaceOK, PlaceOnly, Steps
  <2>2. /\ pc'[c] = "copy" /\ pub'[c] = pub[c] /\ Doing(c)' = Doing(c)
        /\ Seen(c)' = Seen(c) /\ Own(c)' = Own(c) /\ rec'[c] = rec[c]
    BY <1>1, <1>3, <1>5 DEF Goto, TypeOK, Doing, Seen, Publishing, Own
  <2>3. PublicationSound(c)' /\ TakeoverSound(c)' /\ SeenSound(c)' /\ ConnectSound(c)'
    BY <1>1, <1>3, <2>2 DEF Sound, PublicationSound, TakeoverSound, SeenSound, ConnectSound,
       Publishing, Known
  <2> QED
    BY <1>1, <1>2, <1>3, <2>1, <2>3, RequestMoves DEF TypeOK
<1>6. CASE Goto(c, "readback") /\ UNCHANGED <<view, aligned>>
  <2>1. PlaceOK' /\ PlaceOnly(c)
    BY <1>1, <1>6 DEF Goto, TypeOK, PlaceOK, PlaceOnly, Steps
  <2>2. /\ pc'[c] = "readback" /\ pub'[c] = pub[c] /\ Doing(c)' = Doing(c)
        /\ Seen(c)' = Seen(c) /\ Own(c)' = Own(c) /\ rec'[c] = rec[c]
    BY <1>1, <1>3, <1>6 DEF Goto, TypeOK, Doing, Seen, Publishing, Own
  <2>3. PublicationSound(c)' /\ TakeoverSound(c)' /\ SeenSound(c)' /\ ConnectSound(c)'
    BY <1>1, <1>3, <2>2 DEF Sound, PublicationSound, TakeoverSound, SeenSound, ConnectSound,
       Publishing, Known
  <2> QED
    BY <1>1, <1>2, <1>3, <2>1, <2>3, RequestMoves DEF TypeOK
<1> QED
  BY <1>4, <1>5, <1>6 DEF Put

LEMMA CopyRootStep == ASSUME IInv, NEW c \in Computers, CopyRoot(c) PROVE IInv'
<1> USE DEF stored, saved
<1>1. /\ TypeOK /\ pc[c] = "copy" /\ pub[c] \in Publications /\ Known(pub[c].data.owner)
      /\ Sound(c) /\ Doing(c) = pub[c].after /\ Seen(c) = pub[c].data
  BY DEF IInv, CopyRoot, Sound, PublicationSound, Publishing, Doing, Seen
<1>2. UNCHANGED <<prof, pending, native, att, rec, intent, begun, cuts>>
  BY DEF CopyRoot
<1>3. CASE UNCHANGED root /\ Stop(c)
  BY <1>1, <1>2, <1>3, StopPlace, RequestMoves DEF TypeOK
<1>4. CASE root' = pub[c].data /\ Goto(c, "readback") /\ UNCHANGED <<view, aligned>>
  <2>1. TypeOK'
    BY <1>1, <1>2, <1>4 DEF Goto, TypeOK, Steps, Publications
  <2>2. Only(c) /\ ProfilesStay /\ Known(root.owner)'
    BY <1>1, <1>2, <1>4 DEF Goto, Only, TypeOK, ProfilesStay, Known
  <2>3. /\ pc'[c] = "readback" /\ pub'[c] = pub[c] /\ Doing(c)' = Doing(c)
        /\ Seen(c)' = Seen(c) /\ Own(c)' = Own(c) /\ rec'[c] = rec[c]
    BY <1>1, <1>2, <1>4 DEF Goto, TypeOK, Doing, Seen, Publishing, Own
  <2>4. PublicationSound(c)' /\ TakeoverSound(c)' /\ SeenSound(c)' /\ ConnectSound(c)'
    BY <1>1, <1>2, <2>3 DEF Sound, PublicationSound, TakeoverSound, SeenSound, ConnectSound,
       Publishing, Known
  <2>5. Sound(c)'
    BY <1>2, <2>4, SavedKept DEF Sound
  <2> QED
    BY <2>1, <2>2, <2>5, StepByOne
<1> QED
  BY <1>3, <1>4 DEF CopyRoot

LEMMA ReadBackStep == ASSUME IInv, NEW c \in Computers, ReadBack(c) PROVE IInv'
<1> USE DEF stored, saved
<1>1. /\ TypeOK /\ pc[c] = "readback" /\ pub[c] \in Publications
      /\ pub[c].after \in Steps \ Publishing
      /\ Sound(c) /\ Doing(c) = pub[c].after /\ Seen(c) = pub[c].data
  BY DEF IInv, ReadBack, Sound, PublicationSound, Publishing, Doing, Seen, Publications
<1>2. pending' \in [Names -> Roots \cup {None}]
  BY <1>1 DEF ReadBack, TypeOK, Publications
<1>3. UNCHANGED <<root, prof, native, att, rec, intent, begun, cuts>>
  BY DEF ReadBack
<1>4. CASE Stop(c)
  BY <1>1, <1>2, <1>3, <1>4, StopPlace, RequestMoves DEF TypeOK
<1>5. CASE root = pub[c].data /\ ~Stop(c)
  <2>1. PlaceOK' /\ PlaceOnly(c)
    BY <1>1, <1>5 DEF ReadBack, TypeOK, PlaceOK, PlaceOnly
  <2>2. /\ pc'[c] = pub[c].after /\ Doing(c)' = Doing(c)
        /\ Doing(c) # "idle" => Seen(c)' = Seen(c)
        /\ Own(c)' = Own(c) /\ rec'[c] = rec[c]
    BY <1>1, <1>3, <1>5 DEF ReadBack, TypeOK, Doing, Seen, Publishing, Own
  <2>3. PublicationSound(c)' /\ TakeoverSound(c)' /\ SeenSound(c)' /\ ConnectSound(c)'
    BY <1>1, <1>3, <2>2 DEF Sound, PublicationSound, TakeoverSound, SeenSound, ConnectSound, Known
  <2> QED
    BY <1>1, <1>2, <1>3, <2>1, <2>3, RequestMoves DEF TypeOK
<1> QED
  BY <1>4, <1>5 DEF ReadBack

-----------------------------------------------------------------------------
(* The takeover.                                                             *)

\* The first publication of a takeover, from a saved record.
LEMMA MarkerPlace ==
    ASSUME IInv, NEW c \in Computers, NEW r \in Records, root.transfer = None,
           PublishMarker(c, r), r.to = Own(c), rec' = [rec EXCEPT ![c] = r],
           att[c] \in Saved, r.state = "reviewed",
           UNCHANGED <<prof, aligned, att>>, view' = [view EXCEPT ![c] = root]
    PROVE  /\ PlaceOK' /\ PlaceOnly(c) /\ PublicationSound(c)'
           /\ TakeoverSound(c)' /\ SeenSound(c)' /\ ConnectSound(c)'
<1> DEFINE m == Marked(root, r.op, r.from, r.to)
           next == IF Kopia THEN "align" ELSE "phase"
<1>1. /\ TypeOK /\ root \in Roots /\ Known(root.owner) /\ r.to \in Computers
      /\ rec'[c] = r /\ Own(c)' = Own(c) /\ att'[c] \in Saved
  BY DEF IInv, TypeOK, Records, Own
<1>2. /\ m \in Roots /\ m.owner = root.owner /\ m.transfer \in Transfers
      /\ m.transfer.to = r.to /\ m.transfer.phase = "reviewed" /\ Follows(m, root)
  BY <1>1, MarkedRoot DEF Records
<1>3. next \in Steps \ Publishing /\ TakeoverName(r.op) \in Names \cup {None}
  BY DEF Steps, Publishing, TakeoverName
<1>4. Publish(c, m, root, TakeoverName(r.op), next)
  BY DEF PublishMarker
<1> HIDE DEF m
<1>5. /\ PlaceOK' /\ PlaceOnly(c) /\ PublicationSound(c)'
      /\ Doing(c)' = next /\ Seen(c)' = m
  BY <1>1, <1>2, <1>3, <1>4, PublishPlace
<1>6. prof'[m.owner] \in Attachments
  BY <1>1, <1>2 DEF Known
<1>7. TakeoverSound(c)' /\ ConnectSound(c)'
  BY <1>1, <1>5 DEF TakeoverSound, ConnectSound, ConnectSteps
<1>8. SeenSound(c)'
  BY <1>1, <1>2, <1>5, <1>6 DEF SeenSound, Known
<1> QED
  BY <1>5, <1>7, <1>8

LEMMA BeginTakeoverStep == ASSUME IInv, NEW c \in Computers, BeginTakeover(c) PROVE IInv'
<1> USE DEF stored, saved
<1> DEFINE r == NewRecord(c)
<1>1. TypeOK /\ root \in Roots /\ att[c] \in Saved /\ Own(c) \in Computers
  BY DEF IInv, BeginTakeover, Attached, TypeOK, Saved, Own
<1>2. /\ rec[c] = None /\ root.transfer = None /\ PublishMarker(c, r)
      /\ rec' = [rec EXCEPT ![c] = r] /\ view' = [view EXCEPT ![c] = root]
      /\ UNCHANGED <<root, prof, pending, native, att, intent, aligned, cuts>>
      /\ begun < MaxOps /\ begun' = begun + 1
  BY DEF BeginTakeover, MarkerAllowed
<1>3. begun' \in 0..MaxOps /\ begun + 1 \in 1..MaxOps
  BY <1>1, <1>2, OwnershipConstants DEF TypeOK
<1>4. r \in Records /\ r.to = Own(c) /\ r.state = "reviewed"
  BY <1>1, <1>3 DEF NewRecord, Records, Ops, Roots, Phases
<1> HIDE DEF r
<1>5. /\ PlaceOK' /\ PlaceOnly(c) /\ PublicationSound(c)'
      /\ TakeoverSound(c)' /\ SeenSound(c)' /\ ConnectSound(c)'
  BY <1>1, <1>2, <1>4, MarkerPlace
<1> QED
  BY <1>1, <1>2, <1>3, <1>4, <1>5, RequestMoves DEF TypeOK

LEMMA ResumeTakeoverStep == ASSUME IInv, NEW c \in Computers, ResumeTakeover(c) PROVE IInv'
<1> USE DEF stored, saved
<1>1. /\ TypeOK /\ root \in Roots /\ att[c] \in Saved /\ rec[c] \in Records
      /\ rec[c].to = Own(c) /\ Known(root.owner)
  BY DEF IInv, ResumeTakeover, Attached, TypeOK
<1>2. /\ view' = [view EXCEPT ![c] = root] /\ MarkerAllowed(c)
      /\ UNCHANGED <<root, prof, pending, native, att, rec, intent, aligned, begun, cuts>>
  BY DEF ResumeTakeover
<1>3. SUFFICES /\ PlaceOK' /\ PlaceOnly(c) /\ PublicationSound(c)'
               /\ TakeoverSound(c)' /\ SeenSound(c)' /\ ConnectSound(c)'
  BY <1>1, <1>2, RequestMoves DEF TypeOK
<1>4. ASSUME NEW step \in {"care", "align", "phase", "advance", "reread", "complete"},
             Goto(c, step),
             step = "reread" => rec[c].state # "reviewed",
             step \in {"align", "phase"} => root.transfer # None /\ root.transfer.phase = "reviewed"
      PROVE  /\ PlaceOK' /\ PlaceOnly(c) /\ PublicationSound(c)'
             /\ TakeoverSound(c)' /\ SeenSound(c)' /\ ConnectSound(c)'
  <2>1. step \in Steps \ Publishing
    BY DEF Steps, Publishing
  <2>2. /\ PlaceOK' /\ PlaceOnly(c) /\ PublicationSound(c)'
        /\ Doing(c)' = step /\ Seen(c)' = root
    BY <1>1, <1>2, <1>4, <2>1, GotoReading
  <2>3. /\ rec'[c] = rec[c] /\ att'[c] = att[c] /\ Own(c)' = Own(c)
        /\ prof'[root.owner] \in Attachments
    BY <1>1, <1>2 DEF Own, Known
  <2>4. TakeoverSound(c)' /\ ConnectSound(c)'
    BY <1>1, <1>4, <2>2, <2>3 DEF TakeoverSound, ConnectSound, ConnectSteps
  <2>5. SeenSound(c)'
    BY <1>1, <1>2, <1>4, <2>2, <2>3 DEF SeenSound, Known, MarkerAllowed, Roots
  <2> QED
    BY <2>2, <2>4, <2>5
<1>5. CASE Goto(c, "care")
  BY <1>4, <1>5
<1>6. CASE ResumeAt(c)
  <2>1. rec[c].state \in {"reviewed", "native_owner_applied", "root_published"}
    BY <1>1 DEF Records, Phases
  <2>2. CASE rec[c].state = "reviewed" /\ root.transfer = None
    <3>1. PublishMarker(c, rec[c])
      BY <1>6, <2>2 DEF ResumeAt
    <3>2. rec' = [rec EXCEPT ![c] = rec[c]]
      BY <1>1, <1>2 DEF TypeOK
    <3> QED
      BY <1>1, <1>2, <2>2, <3>1, <3>2, MarkerPlace
  <2>3. CASE rec[c].state = "reviewed" /\ root.transfer # None
    <3>1. root.transfer.phase \in Phases
      BY <1>1, <2>3 DEF Roots, Transfers
    <3>2. \/ Goto(c, "advance")
          \/ root.transfer.phase = "reviewed" /\ (Goto(c, "align") \/ Goto(c, "phase"))
      BY <1>6, <2>3, <3>1 DEF ResumeAt, Phases
    <3> QED
      BY <1>4, <2>3, <3>2
  <2>4. CASE rec[c].state = "native_owner_applied"
    BY <1>4, <1>6, <2>4 DEF ResumeAt
  <2>5. CASE rec[c].state = "root_published"
    BY <1>4, <1>6, <2>5 DEF ResumeAt
  <2> QED
    BY <2>1, <2>2, <2>3, <2>4, <2>5
<1> QED
  BY <1>5, <1>6 DEF ResumeTakeover

LEMMA AlignStep == ASSUME IInv, NEW c \in Computers, Align(c) PROVE IInv'
<1> USE DEF stored, saved
<1>1. /\ TypeOK /\ Sound(c) /\ Doing(c) = "align" /\ Seen(c) = view[c]
      /\ UNCHANGED <<root, prof, pending, att, rec, intent, begun, cuts>>
  BY DEF IInv, Align, Doing, Seen, Publishing
<1>2. native' \in Computers
  BY <1>1 DEF Align, TypeOK
<1>3. CASE Stop(c)
  BY <1>1, <1>2, <1>3, StopPlace, RequestMoves DEF TypeOK
<1>4. CASE ~Stop(c)
  <2> DEFINE step == IF rec[c].state = "reviewed" THEN "phase" ELSE "final"
  <2>1. Goto(c, step) /\ UNCHANGED view /\ aligned' = aligned \cup {c}
    BY <1>4 DEF Align
  <2>2. step \in Steps \ Publishing /\ aligned' \subseteq Computers
    BY <1>1, <2>1 DEF Steps, Publishing, TypeOK
  <2>3. /\ PlaceOK' /\ PlaceOnly(c) /\ PublicationSound(c)'
        /\ Doing(c)' = step /\ Seen(c)' = Seen(c)
    BY <1>1, <2>1, <2>2, GotoPlace
  <2>4. rec'[c] = rec[c] /\ att'[c] = att[c] /\ Own(c)' = Own(c)
    BY <1>1 DEF Own
  <2>5. TakeoverSound(c)' /\ SeenSound(c)' /\ ConnectSound(c)'
    BY <1>1, <2>3, <2>4 DEF Sound, TakeoverSound, SeenSound, ConnectSound, TakeoverSteps,
       ConnectSteps, Known
  <2> QED
    BY <1>1, <1>2, <2>3, <2>5, RequestMoves DEF TypeOK
<1> QED
  BY <1>3, <1>4

LEMMA PublishAppliedStep == ASSUME IInv, NEW c \in Computers, PublishApplied(c) PROVE IInv'
<1> USE DEF stored, saved
<1>1. /\ TypeOK /\ Sound(c) /\ Doing(c) = "phase" /\ Seen(c) = view[c]
      /\ UNCHANGED <<root, prof, pending, native, att, rec, intent, view, aligned, begun, cuts>>
  BY DEF IInv, PublishApplied, Doing, Seen, Publishing
<1>2. /\ rec[c] \in Records /\ att[c] \in Saved /\ rec[c].to = Own(c)
      /\ view[c] \in Roots /\ view[c].transfer \in Transfers
      /\ view[c].transfer.phase = "reviewed" /\ Known(view[c].owner)
  BY <1>1 DEF Sound, TakeoverSound, SeenSound, TakeoverSteps
<1>3. /\ Applied(view[c]) \in Roots /\ Applied(view[c]).owner = view[c].owner
      /\ Follows(Applied(view[c]), view[c])
  BY <1>2, AppliedRoot
<1>4. "advance" \in Steps \ Publishing /\ TakeoverName(rec[c].op) \in Names \cup {None}
  BY DEF Steps, Publishing, TakeoverName
<1>5. Publish(c, Applied(view[c]), view[c], TakeoverName(rec[c].op), "advance")
  BY DEF PublishApplied
<1>6. /\ PlaceOK' /\ PlaceOnly(c) /\ PublicationSound(c)' /\ Doing(c)' = "advance"
  BY <1>1, <1>2, <1>3, <1>4, <1>5, PublishPlace
<1>7. TakeoverSound(c)' /\ SeenSound(c)' /\ ConnectSound(c)'
  BY <1>1, <1>2, <1>6 DEF TakeoverSound, SeenSound, ConnectSound, ConnectSteps, Own
<1> QED
  BY <1>1, <1>6, <1>7, RequestMoves DEF TypeOK

LEMMA AdvanceStep == ASSUME IInv, NEW c \in Computers, Advance(c) PROVE IInv'
<1> USE DEF stored, saved
<1>1. /\ TypeOK /\ Sound(c) /\ Doing(c) = "advance"
      /\ UNCHANGED <<root, prof, pending, native, att, intent, view, aligned, begun, cuts>>
      /\ rec' = [rec EXCEPT ![c].state = "native_owner_applied"] /\ Goto(c, "reread")
  BY DEF IInv, Advance, Doing, Publishing
<1>2. rec[c] \in Records /\ att[c] \in Saved /\ rec[c].to = Own(c)
  BY <1>1 DEF Sound, TakeoverSound, TakeoverSteps
<1>3. /\ rec' \in [Computers -> Records \cup {None}]
      /\ rec'[c] \in Records /\ rec'[c].to = rec[c].to /\ rec'[c].state = "native_owner_applied"
      /\ \A d \in Computers \ {c} : rec'[d] = rec[d]
  <2>1. [rec[c] EXCEPT !.state = "native_owner_applied"] \in Records
    BY <1>2 DEF Records, Phases
  <2>2. rec' = [rec EXCEPT ![c] = [rec[c] EXCEPT !.state = "native_owner_applied"]]
    BY <1>1
  <2>3. /\ [rec[c] EXCEPT !.state = "native_owner_applied"].to = rec[c].to
        /\ [rec[c] EXCEPT !.state = "native_owner_applied"].state = "native_owner_applied"
    BY <1>2 DEF Records
  <2> QED
    BY <1>1, <2>1, <2>2, <2>3 DEF TypeOK
<1>4. "reread" \in Steps \ Publishing
  BY DEF Steps, Publishing
<1>5. /\ PlaceOK' /\ PlaceOnly(c) /\ PublicationSound(c)' /\ Doing(c)' = "reread"
  BY <1>1, <1>4, GotoPlace DEF TypeOK
<1>6. TakeoverSound(c)' /\ SeenSound(c)' /\ ConnectSound(c)'
  BY <1>1, <1>2, <1>3, <1>5 DEF TakeoverSound, SeenSound, ConnectSound, ConnectSteps, Own
<1> QED
  BY <1>1, <1>3, <1>5, <1>6, RequestMoves DEF TypeOK

LEMMA RereadStep == ASSUME IInv, NEW c \in Computers, Reread(c) PROVE IInv'
<1> USE DEF stored, saved
<1>1. /\ TypeOK /\ Sound(c) /\ Doing(c) = "reread" /\ root \in Roots /\ Known(root.owner)
      /\ UNCHANGED <<root, prof, pending, native, att, rec, intent, begun, cuts>>
  BY DEF IInv, Reread, Doing, Publishing, TypeOK
<1>2. /\ rec[c] \in Records /\ att[c] \in Saved /\ rec[c].to = Own(c)
      /\ rec[c].state # "reviewed"
  BY <1>1 DEF Sound, TakeoverSound, TakeoverSteps
<1>3. /\ rec'[c] = rec[c] /\ att'[c] = att[c] /\ Own(c)' = Own(c)
      /\ prof'[root.owner] \in Attachments
  BY <1>1 DEF Own, Known
<1>4. CASE Stop(c)
  BY <1>1, <1>4, StopPlace, RequestMoves DEF TypeOK
<1>5. CASE Goto(c, "published") /\ UNCHANGED <<view, aligned>>
  <2>1. "published" \in Steps \ Publishing
    BY DEF Steps, Publishing
  <2>2. /\ PlaceOK' /\ PlaceOnly(c) /\ PublicationSound(c)' /\ Doing(c)' = "published"
    BY <1>1, <1>5, <2>1, GotoPlace DEF TypeOK
  <2>3. TakeoverSound(c)' /\ SeenSound(c)' /\ ConnectSound(c)'
    BY <1>2, <1>3, <2>2 DEF TakeoverSound, SeenSound, ConnectSound, ConnectSteps
  <2> QED
    BY <1>1, <2>2, <2>3, RequestMoves DEF TypeOK
<1>6. ASSUME NEW step \in {"align", "final"}, Goto(c, step), MarkerAllowed(c),
             root.transfer # None, view' = [view EXCEPT ![c] = root], UNCHANGED aligned
      PROVE  IInv'
  <2>1. step \in Steps \ Publishing
    BY DEF Steps, Publishing
  <2>2. /\ PlaceOK' /\ PlaceOnly(c) /\ PublicationSound(c)'
        /\ Doing(c)' = step /\ Seen(c)' = root
    BY <1>1, <1>6, <2>1, GotoReading
  <2>3. TakeoverSound(c)' /\ ConnectSound(c)'
    BY <1>2, <1>3, <2>2 DEF TakeoverSound, ConnectSound, ConnectSteps
  <2>4. SeenSound(c)'
    BY <1>1, <1>2, <1>3, <1>6, <2>2 DEF SeenSound, Known, MarkerAllowed, Roots
  <2> QED
    BY <1>1, <2>2, <2>3, <2>4, RequestMoves DEF TypeOK
<1>7. CASE /\ MarkerAllowed(c) /\ root.owner = rec[c].from /\ root.transfer # None
           /\ ~Stop(c) /\ ~(Goto(c, "published") /\ UNCHANGED <<view, aligned>>)
  <2>1. /\ Goto(c, "align") \/ Goto(c, "final")
        /\ view' = [view EXCEPT ![c] = root] /\ UNCHANGED aligned
    BY <1>7 DEF Reread
  <2> QED
    BY <1>6, <1>7, <2>1
<1> QED
  BY <1>4, <1>5, <1>7 DEF Reread

LEMMA PublishOwnedStep == ASSUME IInv, NEW c \in Computers, PublishOwned(c) PROVE IInv'
<1> USE DEF stored, saved
<1>1. /\ TypeOK /\ Sound(c) /\ Doing(c) = "final" /\ Seen(c) = view[c]
      /\ UNCHANGED <<root, prof, pending, native, att, rec, intent, view, aligned, begun, cuts>>
  BY DEF IInv, PublishOwned, Doing, Seen, Publishing
<1>2. /\ rec[c] \in Records /\ att[c] \in Saved /\ rec[c].to = Own(c)
      /\ view[c] \in Roots /\ view[c].transfer \in Transfers
      /\ view[c].transfer.to = Own(c)
  BY <1>1 DEF Sound, TakeoverSound, SeenSound, TakeoverSteps
<1>3. Own(c) \in Computers /\ Known(Own(c))
  BY <1>1, <1>2, NoneIsNoData DEF Sound, SavedSound, Saved, Own
<1>4. /\ OwnedBy(view[c], Own(c)) \in Roots /\ OwnedBy(view[c], Own(c)).owner = Own(c)
      /\ Follows(OwnedBy(view[c], Own(c)), view[c])
  BY <1>2, OwnedRoot DEF Saved, Own
<1>5. "published" \in Steps \ Publishing /\ TakeoverName(rec[c].op) \in Names \cup {None}
  BY DEF Steps, Publishing, TakeoverName
<1>6. Publish(c, OwnedBy(view[c], Own(c)), view[c], TakeoverName(rec[c].op), "published")
  BY DEF PublishOwned
<1>7. /\ PlaceOK' /\ PlaceOnly(c) /\ PublicationSound(c)' /\ Doing(c)' = "published"
  BY <1>1, <1>2, <1>3, <1>4, <1>5, <1>6, PublishPlace
<1>8. TakeoverSound(c)' /\ SeenSound(c)' /\ ConnectSound(c)'
  BY <1>1, <1>2, <1>7 DEF TakeoverSound, SeenSound, ConnectSound, ConnectSteps, Own
<1> QED
  BY <1>1, <1>7, <1>8, RequestMoves DEF TypeOK

LEMMA PublishedStep == ASSUME IInv, NEW c \in Computers, Published(c) PROVE IInv'
<1> USE DEF stored, saved
<1>1. /\ TypeOK /\ Sound(c) /\ Doing(c) = "published"
      /\ UNCHANGED <<root, prof, pending, native, att, intent, view, aligned, begun, cuts>>
      /\ rec' = [rec EXCEPT ![c].state = "root_published"] /\ Goto(c, "complete")
  BY DEF IInv, Published, Doing, Publishing
<1>2. rec[c] \in Records /\ att[c] \in Saved /\ rec[c].to = Own(c)
  BY <1>1 DEF Sound, TakeoverSound, TakeoverSteps
<1>3. /\ rec' \in [Computers -> Records \cup {None}]
      /\ rec'[c] \in Records /\ rec'[c].to = rec[c].to
      /\ \A d \in Computers \ {c} : rec'[d] = rec[d]
  <2>1. [rec[c] EXCEPT !.state = "root_published"] \in Records
    BY <1>2 DEF Records, Phases
  <2>2. rec' = [rec EXCEPT ![c] = [rec[c] EXCEPT !.state = "root_published"]]
    BY <1>1
  <2>3. [rec[c] EXCEPT !.state = "root_published"].to = rec[c].to
    BY <1>2 DEF Records
  <2> QED
    BY <1>1, <2>1, <2>2, <2>3 DEF TypeOK
<1>4. "complete" \in Steps \ Publishing
  BY DEF Steps, Publishing
<1>5. /\ PlaceOK' /\ PlaceOnly(c) /\ PublicationSound(c)' /\ Doing(c)' = "complete"
  BY <1>1, <1>4, GotoPlace DEF TypeOK
<1>6. TakeoverSound(c)' /\ SeenSound(c)' /\ ConnectSound(c)'
  BY <1>1, <1>2, <1>3, <1>5 DEF TakeoverSound, SeenSound, ConnectSound, ConnectSteps, Own
<1> QED
  BY <1>1, <1>3, <1>5, <1>6, RequestMoves DEF TypeOK

LEMMA CompleteStep == ASSUME IInv, NEW c \in Computers, Complete(c) PROVE IInv'
<1>1. /\ TypeOK /\ rec' = [rec EXCEPT ![c] = None] /\ Stop(c)
      /\ UNCHANGED <<root, prof, pending, native, att, intent, begun, cuts>>
  BY DEF IInv, Complete, stored
<1> QED
  BY <1>1, StopPlace, RequestMoves DEF TypeOK

LEMMA AlignOwnedStep == ASSUME IInv, NEW c \in Computers, AlignOwned(c) PROVE IInv'
<1> USE DEF stored, saved
<1>1. /\ TypeOK /\ Sound(c) /\ Doing(c) = "care"
      /\ UNCHANGED <<root, prof, pending, att, rec, intent, begun, cuts>>
  BY DEF IInv, AlignOwned, Doing, Publishing
<1>2. native' \in Computers
  BY <1>1 DEF AlignOwned, TypeOK
<1>3. CASE Stop(c)
  BY <1>1, <1>2, <1>3, StopPlace, RequestMoves DEF TypeOK
<1>4. CASE ~Stop(c)
  <2> DEFINE step == IF rec[c].state = "root_published" THEN "complete" ELSE "published"
  <2>1. Goto(c, step) /\ UNCHANGED <<view, aligned>>
    BY <1>4 DEF AlignOwned
  <2>2. step \in Steps \ Publishing
    BY DEF Steps, Publishing
  <2>3. /\ PlaceOK' /\ PlaceOnly(c) /\ PublicationSound(c)' /\ Doing(c)' = step
    BY <1>1, <2>1, <2>2, GotoPlace DEF TypeOK
  <2>4. rec'[c] = rec[c] /\ att'[c] = att[c] /\ Own(c)' = Own(c)
    BY <1>1 DEF Own
  <2>5. TakeoverSound(c)' /\ SeenSound(c)' /\ ConnectSound(c)'
    BY <1>1, <2>3, <2>4 DEF Sound, TakeoverSound, SeenSound, ConnectSound, TakeoverSteps,
       ConnectSteps
  <2> QED
    BY <1>1, <1>2, <2>3, <2>5, RequestMoves DEF TypeOK
<1> QED
  BY <1>3, <1>4

LEMMA SaveCareStep == ASSUME IInv, NEW c \in Computers, SaveCare(c) PROVE IInv'
<1> USE DEF stored, saved
<1> DEFINE r == [root EXCEPT !.rev = @ + 1]
<1>1. /\ TypeOK /\ root \in Roots /\ root.transfer = None /\ Known(root.owner)
      /\ begun < MaxOps /\ begun' = begun + 1 /\ Publish(c, r, root, None, "idle")
      /\ UNCHANGED <<root, prof, pending, native, att, rec, intent, view, aligned, cuts>>
  BY DEF IInv, SaveCare, TypeOK
<1>2. begun' \in 0..MaxOps
  BY <1>1, OwnershipConstants DEF TypeOK
<1>3. r \in Roots /\ r.owner = root.owner /\ Follows(r, root)
  BY <1>1, CareRoot
<1>4. "idle" \in Steps \ Publishing
  BY DEF Steps, Publishing
<1> HIDE DEF r
<1>5. /\ PlaceOK' /\ PlaceOnly(c) /\ PublicationSound(c)' /\ Doing(c)' = "idle"
  BY <1>1, <1>3, <1>4, PublishPlace
<1>6. TakeoverSound(c)' /\ SeenSound(c)' /\ ConnectSound(c)'
  BY <1>5 DEF TakeoverSound, SeenSound, ConnectSound, TakeoverSteps, ConnectSteps
<1> QED
  BY <1>1, <1>2, <1>5, <1>6, RequestMoves DEF TypeOK

-----------------------------------------------------------------------------
(* The connection.                                                           *)

\* A step that moves this computer's request and connection, and perhaps the profiles.
LEMMA ConnectionMoves ==
    ASSUME IInv, NEW c \in Computers, UNCHANGED <<root, pending, att, rec, cuts>>,
           prof' \in [Computers -> Attachments \cup {None}], ProfilesStay,
           native' \in Computers, begun' \in 0..MaxOps,
           intent' \in [Computers -> Intents \cup {None}],
           \A d \in Computers \ {c} : intent'[d] = intent[d],
           PlaceOK', PlaceOnly(c), PublicationSound(c)', TakeoverSound(c)', SeenSound(c)',
           IntentSound(c)', ConnectSound(c)'
    PROVE  IInv'
<1>1. TypeOK'
  BY DEF IInv, TypeOK, PlaceOK
<1>2. Only(c)
  BY DEF Only, PlaceOnly
<1>3. SavedSound(c)' /\ Known(root.owner)'
  BY DEF IInv, Sound, SavedSound, Own, TypeOK, Saved, ProfilesStay, Roots, Known
<1> QED
  BY <1>1, <1>2, <1>3, StepByOne DEF Sound

LEMMA MarkKeeps ==
    ASSUME IInv, NEW c \in Computers, intent[c] \in Intents, ProfilesStay,
           NEW state \in {"prepared", "publication_started", "attachment_pending"},
           intent' = intent \/ Mark(c, state)
    PROVE  /\ intent' \in [Computers -> Intents \cup {None}]
           /\ \A d \in Computers \ {c} : intent'[d] = intent[d]
           /\ intent'[c] \in Intents /\ intent'[c].profile = intent[c].profile
           /\ IntentSound(c)'
<1> DEFINE i == [intent[c] EXCEPT !.state = state]
<1>1. TypeOK /\ IntentSound(c) /\ intent[c] # None
  BY NoneIsNoData DEF IInv, Sound
<1>2. CASE intent' = intent
  BY <1>1, <1>2 DEF TypeOK, IntentSound, Intents, Roots, ProfilesStay
<1>3. CASE Mark(c, state)
  <2>1. i \in Intents
    BY DEF Intents
  <2>2. /\ i.op = intent[c].op /\ i.profile = intent[c].profile
        /\ i.expected = intent[c].expected /\ i.marker = intent[c].marker
        /\ i.final = intent[c].final
    BY DEF Intents
  <2>3. intent' = [intent EXCEPT ![c] = i]
    BY <1>3 DEF Mark
  <2> HIDE DEF i
  <2>4. intent'[c] = i /\ intent' \in [Computers -> Intents \cup {None}]
    BY <1>1, <2>1, <2>3 DEF TypeOK
  <2>5. Known(intent[c].expected.owner)'
    BY <1>1, <2>1, <2>2, <2>4 DEF IntentSound, Intents, Roots, ProfilesStay, Known
  <2>6. IntentSound(c)'
    BY <1>1, <2>2, <2>4, <2>5 DEF IntentSound
  <2> QED
    BY <2>1, <2>2, <2>3, <2>4, <2>6
<1> QED
  BY <1>2, <1>3

LEMMA ConnectStep ==
    ASSUME IInv, NEW c \in Computers, NEW kind \in Kinds, NEW p \in Computers,
           NEW own \in BOOLEAN, Connect(c, kind, p, own)
    PROVE  IInv'
<1> USE DEF stored, saved
<1> DEFINE op == [by |-> c, n |-> begun + 1]
           marker == Marked(root, op, root.owner, p)
           final == OwnedBy(marker, p)
           i == Intent(c, kind, p, own)
<1>1. /\ TypeOK /\ Sound(c) /\ root \in Roots /\ root.transfer = None /\ Known(root.owner)
      /\ begun < MaxOps /\ begun' = begun + 1 /\ pc[c] = "idle"
      /\ intent' = [intent EXCEPT ![c] = i] /\ Goto(c, "profile")
      /\ UNCHANGED <<root, prof, pending, native, att, rec, view, aligned, cuts>>
  BY DEF IInv, Connect, TypeOK
<1>2. begun' \in 0..MaxOps /\ op \in Ops
  BY <1>1, OwnershipConstants DEF TypeOK, Ops
<1>3. root.owner \in Computers /\ prof[root.owner].client \in Computers
  BY <1>1 DEF Known, Attachments, Roots
<1>4. Goal(c, kind, p) \in Attachments /\ prof[p] \in Attachments \cup {None}
  <2>1. prof[p] \in Attachments \cup {None}
    BY <1>1 DEF TypeOK
  <2>2. Choice(c, kind, p) /\ kind \in {"join", "reconnect", "takeover"}
    BY DEF Connect, Kinds
  <2>3. CASE kind = "join"
    BY <2>1, <2>3 DEF Goal, Attachments
  <2>4. CASE kind = "reconnect"
    <3>1. prof[p] # None
      BY <2>2, <2>4 DEF Choice, AttachedTo
    <3> QED
      BY <2>1, <2>4, <3>1 DEF Goal
  <2>5. CASE kind = "takeover"
    <3>1. prof[p] \in Attachments
      BY <2>1, <2>2, <2>5 DEF Choice
    <3> QED
      BY <2>1, <2>5, <3>1 DEF Goal, Attachments
  <2> QED
    BY <2>1, <2>2, <2>3, <2>4, <2>5
<1>5. marker \in Roots
  BY <1>1, <1>2, <1>3, MarkedRoot
<1>6. final \in Roots
  BY <1>5, OwnedRoot
<1>7. /\ i \in Intents /\ i.expected = root /\ i.op = op /\ i.profile = p
      /\ i.marker = marker /\ i.final = final
  <2> DEFINE holder == IF own \/ root.owner = p THEN c ELSE prof[root.owner].client
  <2>1. holder \in Computers
    BY <1>3
  <2>2. i = [op |-> op, kind |-> kind, profile |-> p, own |-> own, state |-> "prepared",
             reviewed |-> prof[p], goal |-> Goal(c, kind, p), expected |-> root,
             marker |-> marker, final |-> final, native |-> holder]
    BY DEF Intent
  <2> HIDE DEF i, op, marker, final, holder
  <2> QED
    BY <1>1, <1>2, <1>4, <1>5, <1>6, <2>1, <2>2 DEF Intents
<1> HIDE DEF i
<1>8. /\ intent' \in [Computers -> Intents \cup {None}] /\ intent'[c] = i
      /\ \A d \in Computers \ {c} : intent'[d] = intent[d]
  BY <1>1, <1>7 DEF TypeOK
<1>9. IntentSound(c)'
  BY <1>1, <1>7, <1>8 DEF IntentSound, Known
<1>10. "profile" \in Steps \ Publishing
  BY DEF Steps, Publishing
<1>11. /\ PlaceOK' /\ PlaceOnly(c) /\ PublicationSound(c)' /\ Doing(c)' = "profile"
  BY <1>1, <1>10, GotoPlace DEF TypeOK
<1>12. TakeoverSound(c)' /\ SeenSound(c)' /\ ConnectSound(c)'
  BY <1>7, <1>8, <1>11 DEF TakeoverSound, SeenSound, ConnectSound, TakeoverSteps
<1>13. ProfilesStay
  BY <1>1, StorageKept
<1> QED
  BY <1>1, <1>2, <1>8, <1>9, <1>11, <1>12, <1>13, ConnectionMoves DEF TypeOK

LEMMA ResumeConnectionStep == ASSUME IInv, NEW c \in Computers, ResumeConnection(c) PROVE IInv'
<1> USE DEF stored, saved
<1>1. /\ TypeOK /\ intent[c] # None /\ Goto(c, "profile")
      /\ UNCHANGED <<root, prof, pending, native, att, rec, intent, view, aligned, begun, cuts>>
  BY DEF IInv, ResumeConnection
<1>2. "profile" \in Steps \ Publishing /\ intent[c] \in Intents
  BY <1>1 DEF Steps, Publishing, TypeOK
<1>3. /\ PlaceOK' /\ PlaceOnly(c) /\ PublicationSound(c)' /\ Doing(c)' = "profile"
  BY <1>1, <1>2, GotoPlace DEF TypeOK
<1>4. TakeoverSound(c)' /\ SeenSound(c)' /\ ConnectSound(c)'
  BY <1>1, <1>2, <1>3 DEF TakeoverSound, SeenSound, ConnectSound, TakeoverSteps
<1> QED
  BY <1>1, <1>3, <1>4, RequestMoves DEF TypeOK

LEMMA CancelConnectionStep == ASSUME IInv, NEW c \in Computers, CancelConnection(c) PROVE IInv'
<1> USE DEF stored, saved
<1>1. /\ TypeOK /\ pc[c] = "idle" /\ intent' = [intent EXCEPT ![c] = None]
      /\ UNCHANGED <<root, prof, pending, native, att, rec, pc, view, pub, aligned, begun, cuts>>
  BY DEF IInv, CancelConnection
<1>2. /\ intent' \in [Computers -> Intents \cup {None}] /\ IntentSound(c)'
      /\ \A d \in Computers \ {c} : intent'[d] = intent[d]
  BY <1>1 DEF TypeOK, IntentSound
<1>3. /\ PlaceOK' /\ PlaceOnly(c) /\ PublicationSound(c)' /\ Doing(c)' = "idle"
  BY <1>1 DEF TypeOK, PlaceOK, PlaceOnly, PublicationSound, Doing, Publishing
<1>4. TakeoverSound(c)' /\ SeenSound(c)' /\ ConnectSound(c)'
  BY <1>3 DEF TakeoverSound, SeenSound, ConnectSound, TakeoverSteps, ConnectSteps
<1> QED
  BY <1>1, <1>2, <1>3, <1>4, StorageKept, ConnectionMoves DEF TypeOK

\* A step of the connection that goes on, and moves nothing else but its own state, the
\* profiles and the native owner.
LEMMA ConnectionGoesOn ==
    ASSUME IInv, NEW c \in Computers, UNCHANGED <<root, pending, att, rec, begun, cuts>>,
           prof' \in [Computers -> Attachments \cup {None}], ProfilesStay,
           native' \in Computers, intent[c] \in Intents, Known(intent[c].profile)',
           NEW state \in {"prepared", "publication_started", "attachment_pending"},
           intent' = intent \/ Mark(c, state),
           PlaceOK', PlaceOnly(c), PublicationSound(c)', Doing(c)' \in ConnectSteps
    PROVE  IInv'
<1>1. /\ intent' \in [Computers -> Intents \cup {None}]
      /\ \A d \in Computers \ {c} : intent'[d] = intent[d]
      /\ intent'[c] \in Intents /\ intent'[c].profile = intent[c].profile
      /\ IntentSound(c)'
  BY MarkKeeps
<1>2. TakeoverSound(c)' /\ SeenSound(c)' /\ ConnectSound(c)'
  BY <1>1 DEF TakeoverSound, SeenSound, ConnectSound, TakeoverSteps, ConnectSteps, Known
<1>3. begun' \in 0..MaxOps
  BY DEF IInv, TypeOK
<1> QED
  BY <1>1, <1>2, <1>3, ConnectionMoves

\* One that stops, and may mark the connection.
LEMMA ConnectionStops ==
    ASSUME IInv, NEW c \in Computers,
           UNCHANGED <<root, prof, pending, native, att, rec, begun, cuts>>,
           intent[c] \in Intents,
           NEW state \in {"prepared", "publication_started", "attachment_pending"},
           intent' = intent \/ Mark(c, state), Stop(c)
    PROVE  IInv'
<1>1. TypeOK /\ ProfilesStay
  BY StorageKept DEF IInv
<1>2. /\ intent' \in [Computers -> Intents \cup {None}]
      /\ \A d \in Computers \ {c} : intent'[d] = intent[d]
      /\ IntentSound(c)'
  BY <1>1, MarkKeeps
<1>3. /\ PlaceOK' /\ PlaceOnly(c) /\ PublicationSound(c)'
      /\ TakeoverSound(c)' /\ SeenSound(c)' /\ ConnectSound(c)'
  BY <1>1, StopPlace
<1> QED
  BY <1>1, <1>2, <1>3, ConnectionMoves DEF TypeOK

LEMMA BegunState ==
    ASSUME NEW c \in Computers, intent[c] \in Intents
    PROVE  Begun(c) \in {"prepared", "publication_started", "attachment_pending"}
  BY DEF Begun, Intents

LEMMA PublishProfileStep == ASSUME IInv, NEW c \in Computers, PublishProfile(c) PROVE IInv'
<1> USE DEF stored, saved
<1> DEFINE i == intent[c]
<1>1. /\ TypeOK /\ Doing(c) = "profile" /\ i \in Intents
      /\ UNCHANGED <<root, pending, native, att, rec, begun, cuts>>
  BY DEF IInv, Sound, ConnectSound, ConnectSteps, PublishProfile, Doing, Publishing
<1>2. /\ Begun(c) \in {"prepared", "publication_started", "attachment_pending"}
      /\ i.profile \in Computers /\ i.goal \in Attachments
      /\ "transition" \in (Steps \ Publishing) \cap ConnectSteps
  BY <1>1, BegunState DEF Intents, Steps, Publishing, ConnectSteps
<1>3. CASE Goto(c, "transition") /\ UNCHANGED <<prof, intent, view, aligned>>
           /\ prof[i.profile] = i.goal
  <2>1. /\ PlaceOK' /\ PlaceOnly(c) /\ PublicationSound(c)' /\ Doing(c)' = "transition"
    BY <1>1, <1>2, <1>3, GotoPlace DEF TypeOK
  <2>2. Known(intent[c].profile)' /\ ProfilesStay
    BY <1>2, <1>3 DEF Known, ProfilesStay
  <2> QED
    BY <1>1, <1>2, <1>3, <2>1, <2>2, ConnectionGoesOn DEF TypeOK
<1>4. CASE /\ prof' = [prof EXCEPT ![i.profile] = i.goal]
           /\ Mark(c, Begun(c)) /\ Goto(c, "transition") /\ UNCHANGED <<view, aligned>>
  <2>1. /\ PlaceOK' /\ PlaceOnly(c) /\ PublicationSound(c)' /\ Doing(c)' = "transition"
    BY <1>1, <1>2, <1>4, GotoPlace DEF TypeOK
  <2>2. /\ prof' \in [Computers -> Attachments \cup {None}] /\ ProfilesStay
        /\ prof'[i.profile] \in Attachments
    BY <1>1, <1>2, <1>4 DEF TypeOK, Known, ProfilesStay
  <2>3. Known(intent[c].profile)'
    <3>1. intent'[c].profile = intent[c].profile
      BY <1>1, <1>2, <1>4, <2>2, MarkKeeps
    <3> QED
      BY <2>2, <3>1 DEF Known
  <2> QED
    BY <1>1, <1>2, <1>4, <2>1, <2>2, <2>3, ConnectionGoesOn DEF TypeOK
<1>5. CASE Stop(c) /\ Mark(c, Begun(c)) /\ UNCHANGED prof
  BY <1>1, <1>2, <1>5, ConnectionStops
<1> QED
  BY <1>3, <1>4, <1>5 DEF PublishProfile

LEMMA TransitionStep == ASSUME IInv, NEW c \in Computers, Transition(c) PROVE IInv'
<1> USE DEF stored, saved
<1> DEFINE i == intent[c]
<1>1. /\ TypeOK /\ Doing(c) = "transition" /\ i \in Intents /\ i # None
      /\ Known(i.profile) /\ IntentSound(c) /\ root \in Roots
      /\ UNCHANGED <<root, prof, pending, native, att, rec, begun, cuts>>
  BY NoneIsNoData DEF IInv, Sound, ConnectSound, ConnectSteps, Transition, Doing, Publishing,
     TypeOK
<1>2. /\ Begun(c) \in {"prepared", "publication_started", "attachment_pending"}
      /\ "connectAlign" \in (Steps \ Publishing) \cap ConnectSteps
      /\ ProfilesStay
  BY <1>1, BegunState, StorageKept DEF Steps, Publishing, ConnectSteps
<1>3. intent' = intent \/ Mark(c, Begun(c)) => Known(intent[c].profile)'
  BY <1>1, <1>2, MarkKeeps DEF Known
<1>4. ASSUME intent' = intent \/ Mark(c, Begun(c)), PlaceOK', PlaceOnly(c),
             PublicationSound(c)', Doing(c)' = "connectAlign"
      PROVE  IInv'
  BY <1>1, <1>2, <1>3, <1>4, ConnectionGoesOn DEF TypeOK
<1>5. CASE Goto(c, "connectAlign") /\ UNCHANGED <<intent, view, aligned>>
  BY <1>1, <1>2, <1>4, <1>5, GotoPlace DEF TypeOK
<1>6. CASE /\ Goto(c, "connectAlign") /\ Mark(c, Begun(c))
           /\ view' = [view EXCEPT ![c] = root] /\ UNCHANGED aligned
  BY <1>1, <1>2, <1>4, <1>6, GotoReading
<1>7. CASE /\ Publish(c, i.marker, i.expected, ConnectName(i.op, "marker"), "connectAlign")
           /\ Mark(c, Begun(c)) /\ UNCHANGED <<view, aligned>>
  <2>1. i.op \in Ops /\ i.expected \in Roots /\ i.marker \in Roots /\ i.profile \in Computers
    BY <1>1 DEF Intents
  <2>2. i.expected.owner \in Computers
    BY <2>1 DEF Roots
  <2>3. Follows(i.marker, i.expected) /\ i.marker.owner = i.expected.owner
    <3>1. /\ i.marker = Marked(i.expected, i.op, i.expected.owner, i.profile)
          /\ i.expected.transfer = None
      BY <1>1 DEF IntentSound
    <3> QED
      BY <2>1, <2>2, <3>1, MarkedRoot
  <2>4. Known(i.marker.owner)
    BY <1>1, <2>3 DEF IntentSound
  <2>5. ConnectName(i.op, "marker") \in Names \cup {None}
    BY <2>1 DEF ConnectName, Names
  <2>6. /\ PlaceOK' /\ PlaceOnly(c) /\ PublicationSound(c)' /\ Doing(c)' = "connectAlign"
    BY <1>1, <1>2, <1>7, <2>1, <2>3, <2>4, <2>5, PublishPlace
  <2> QED
    BY <1>4, <1>7, <2>6
<1>8. CASE Stop(c) /\ Mark(c, Begun(c))
  BY <1>1, <1>2, <1>8, ConnectionStops
<1> QED
  BY <1>5, <1>6, <1>7, <1>8 DEF Transition

LEMMA AlignConnectionStep == ASSUME IInv, NEW c \in Computers, AlignConnection(c) PROVE IInv'
<1> USE DEF stored, saved
<1>1. /\ TypeOK /\ Doing(c) = "connectAlign" /\ intent[c] \in Intents
      /\ Known(intent[c].profile)
      /\ UNCHANGED <<root, prof, pending, att, rec, begun, cuts>>
  BY DEF IInv, Sound, ConnectSound, ConnectSteps, AlignConnection, Doing, Publishing
<1>2. /\ Begun(c) \in {"prepared", "publication_started", "attachment_pending"}
      /\ intent' = intent \/ Mark(c, Begun(c))
      /\ "connectFinal" \in (Steps \ Publishing) \cap ConnectSteps
      /\ ProfilesStay /\ native' \in Computers
  BY <1>1, BegunState, StorageKept DEF AlignConnection, Steps, Publishing, ConnectSteps, TypeOK
<1>3. Known(intent[c].profile)'
  BY <1>1, <1>2, MarkKeeps DEF Known
<1>4. CASE Goto(c, "connectFinal") /\ UNCHANGED <<view, aligned>>
  <2>1. /\ PlaceOK' /\ PlaceOnly(c) /\ PublicationSound(c)' /\ Doing(c)' = "connectFinal"
    BY <1>1, <1>2, <1>4, GotoPlace DEF TypeOK
  <2> QED
    BY <1>1, <1>2, <1>3, <2>1, ConnectionGoesOn DEF TypeOK
<1>5. CASE Stop(c) /\ UNCHANGED native
  BY <1>1, <1>2, <1>5, ConnectionStops
<1> QED
  BY <1>4, <1>5 DEF AlignConnection

LEMMA PublishFinalStep == ASSUME IInv, NEW c \in Computers, PublishFinal(c) PROVE IInv'
<1> USE DEF stored, saved
<1> DEFINE i == intent[c]
<1>1. /\ TypeOK /\ Doing(c) = "connectFinal" /\ i \in Intents /\ i # None
      /\ Known(i.profile) /\ IntentSound(c)
      /\ UNCHANGED <<root, prof, pending, native, att, rec, intent, view, aligned, begun, cuts>>
  BY NoneIsNoData DEF IInv, Sound, ConnectSound, ConnectSteps, PublishFinal, Doing, Publishing
<1>2. /\ "confirm" \in (Steps \ Publishing) \cap ConnectSteps
      /\ ProfilesStay /\ Known(i.profile)'
  BY <1>1, StorageKept DEF Steps, Publishing, ConnectSteps, Known
<1>3. ASSUME PlaceOK', PlaceOnly(c), PublicationSound(c)', Doing(c)' = "confirm"
      PROVE  IInv'
  BY <1>1, <1>2, <1>3, ConnectionGoesOn DEF TypeOK
<1>4. CASE Goto(c, "confirm")
  BY <1>1, <1>2, <1>3, <1>4, GotoPlace DEF TypeOK
<1>5. CASE Publish(c, i.final, i.marker, ConnectName(i.op, "final"), "confirm")
  <2>1. /\ i.op \in Ops /\ i.expected \in Roots /\ i.marker \in Roots /\ i.final \in Roots
        /\ i.profile \in Computers
    BY <1>1 DEF Intents
  <2>2. i.expected.owner \in Computers
    BY <2>1 DEF Roots
  <2>3. i.marker.transfer \in Transfers /\ i.marker.transfer.to = i.profile
    <3>1. i.marker = Marked(i.expected, i.op, i.expected.owner, i.profile)
      BY <1>1 DEF IntentSound
    <3> QED
      BY <2>1, <2>2, <3>1, MarkedRoot
  <2>4. Follows(i.final, i.marker) /\ i.final.owner = i.profile
    BY <1>1, <2>1, <2>3, OwnedRoot DEF IntentSound
  <2>5. ConnectName(i.op, "final") \in Names \cup {None}
    BY <2>1 DEF ConnectName, Names
  <2>6. /\ PlaceOK' /\ PlaceOnly(c) /\ PublicationSound(c)' /\ Doing(c)' = "confirm"
    BY <1>1, <1>2, <1>5, <2>1, <2>4, <2>5, PublishPlace
  <2> QED
    BY <1>3, <2>6
<1> QED
  BY <1>4, <1>5 DEF PublishFinal

LEMMA ConfirmStep == ASSUME IInv, NEW c \in Computers, Confirm(c) PROVE IInv'
<1> USE DEF stored, saved
<1>1. /\ TypeOK /\ Doing(c) = "confirm" /\ intent[c] \in Intents /\ Known(intent[c].profile)
      /\ UNCHANGED <<root, prof, pending, native, att, rec, begun, cuts>>
  BY DEF IInv, Sound, ConnectSound, ConnectSteps, Confirm, Doing, Publishing
<1>2. /\ intent' = intent \/ Mark(c, "attachment_pending")
      /\ "attach" \in (Steps \ Publishing) \cap ConnectSteps /\ ProfilesStay
  BY <1>1, StorageKept DEF Confirm, Steps, Publishing, ConnectSteps
<1>3. Known(intent[c].profile)'
  BY <1>1, <1>2, MarkKeeps DEF Known
<1>4. CASE Goto(c, "attach") /\ UNCHANGED <<view, aligned>>
  <2>1. /\ PlaceOK' /\ PlaceOnly(c) /\ PublicationSound(c)' /\ Doing(c)' = "attach"
    BY <1>1, <1>2, <1>4, GotoPlace DEF TypeOK
  <2> QED
    BY <1>1, <1>2, <1>3, <2>1, ConnectionGoesOn DEF TypeOK
<1>5. CASE Stop(c)
  BY <1>1, <1>2, <1>5, ConnectionStops
<1> QED
  BY <1>4, <1>5 DEF Confirm

LEMMA AttachStep == ASSUME IInv, NEW c \in Computers, Attach(c) PROVE IInv'
<1> USE DEF stored, saved
<1> DEFINE v == [profile |-> intent[c].profile, gen |-> intent[c].goal.gen]
<1>1. /\ TypeOK /\ Doing(c) = "attach" /\ intent[c] \in Intents /\ Known(intent[c].profile)
      /\ att' = [att EXCEPT ![c] = v] /\ intent' = [intent EXCEPT ![c] = None] /\ Stop(c)
      /\ UNCHANGED <<root, prof, pending, native, rec, begun, cuts>>
  BY DEF IInv, Sound, ConnectSound, ConnectSteps, Attach, Doing, Publishing
<1>2. v \in Saved /\ v.profile = intent[c].profile
  BY <1>1 DEF Intents, Attachments, Saved
<1> HIDE DEF v
<1>3. /\ att' \in [Computers -> Saved \cup {None}] /\ att'[c] = v
      /\ \A d \in Computers \ {c} : att'[d] = att[d]
  BY <1>1, <1>2 DEF TypeOK
<1>4. /\ intent' \in [Computers -> Intents \cup {None}] /\ IntentSound(c)'
      /\ \A d \in Computers \ {c} : intent'[d] = intent[d]
  BY <1>1 DEF TypeOK, IntentSound
<1>5. /\ PlaceOK' /\ PlaceOnly(c) /\ PublicationSound(c)'
      /\ TakeoverSound(c)' /\ SeenSound(c)' /\ ConnectSound(c)'
  BY <1>1, StopPlace
<1>6. SavedSound(c)'
  BY <1>1, <1>2, <1>3 DEF SavedSound, Own, Known
<1>7. TypeOK' /\ Only(c)
  BY <1>1, <1>3, <1>4, <1>5 DEF TypeOK, PlaceOK, Only, PlaceOnly
<1> QED
  BY <1>1, <1>4, <1>5, <1>6, <1>7, StorageKept, StepByOne DEF Sound

-----------------------------------------------------------------------------
(* Removal and interruption.                                                 *)

LEMMA RemoveStep == ASSUME IInv, NEW c \in Computers, Remove(c) PROVE IInv'
<1> USE DEF stored, saved
<1>1. /\ TypeOK /\ Sound(c) /\ pc[c] = "idle"
      /\ att' = [att EXCEPT ![c] = None] /\ rec' = [rec EXCEPT ![c] = None]
      /\ UNCHANGED <<root, prof, pending, native, intent, pc, view, pub, aligned, begun, cuts>>
  BY DEF IInv, Remove
<1>2. TypeOK' /\ Only(c)
  BY <1>1 DEF TypeOK, Only
<1>3. Doing(c)' = "idle" /\ PublicationSound(c)' /\ SavedSound(c)' /\ IntentSound(c)'
  BY <1>1 DEF Doing, Publishing, PublicationSound, SavedSound, TypeOK, Sound, IntentSound, Known
<1>4. TakeoverSound(c)' /\ SeenSound(c)' /\ ConnectSound(c)'
  BY <1>3 DEF TakeoverSound, SeenSound, ConnectSound, TakeoverSteps, ConnectSteps
<1> QED
  BY <1>1, <1>2, <1>3, <1>4, StorageKept, StepByOne DEF Sound

LEMMA CutStep == ASSUME IInv, NEW c \in Computers, Cut(c) PROVE IInv'
<1> USE DEF stored, saved
<1>1. /\ TypeOK /\ Stop(c) /\ cuts < MaxCuts /\ cuts' = cuts + 1
      /\ UNCHANGED <<root, prof, pending, native, att, rec, intent, begun>>
  BY DEF IInv, Cut
<1>2. cuts' \in 0..MaxCuts
  BY <1>1, OwnershipConstants DEF TypeOK
<1> QED
  BY <1>1, <1>2, StopPlace, RequestMoves DEF TypeOK

-----------------------------------------------------------------------------

LEMMA StepIInv == IInv /\ [Next]_vars => IInv'
<1> SUFFICES ASSUME IInv, [Next]_vars PROVE IInv'
  OBVIOUS
<1>1. CASE Next
  <2>1. PICK c \in Computers :
          \/ RequestStep(c)
          \/ BeginTakeover(c) \/ ResumeTakeover(c) \/ SaveCare(c)
          \/ \E kind \in Kinds, p \in Computers, own \in BOOLEAN : Connect(c, kind, p, own)
          \/ ResumeConnection(c) \/ CancelConnection(c) \/ Remove(c) \/ Cut(c)
    BY <1>1 DEF Next
  <2>2. CASE RequestStep(c)
    BY <2>2, PutStep, CopyRootStep, ReadBackStep, AlignStep, PublishAppliedStep, AdvanceStep,
       RereadStep, PublishOwnedStep, PublishedStep, CompleteStep, AlignOwnedStep,
       PublishProfileStep, TransitionStep, AlignConnectionStep, PublishFinalStep,
       ConfirmStep, AttachStep DEF RequestStep
  <2>3. CASE BeginTakeover(c) \/ ResumeTakeover(c) \/ SaveCare(c)
    BY <2>3, BeginTakeoverStep, ResumeTakeoverStep, SaveCareStep
  <2>4. CASE \E kind \in Kinds, p \in Computers, own \in BOOLEAN : Connect(c, kind, p, own)
    BY <2>4, ConnectStep
  <2>5. CASE ResumeConnection(c) \/ CancelConnection(c) \/ Remove(c) \/ Cut(c)
    BY <2>5, ResumeConnectionStep, CancelConnectionStep, RemoveStep, CutStep
  <2> QED
    BY <2>1, <2>2, <2>3, <2>4, <2>5
<1>2. CASE UNCHANGED vars
  BY <1>2 DEF vars, stored, saved, IInv, TypeOK, Sound, PublicationSound, TakeoverSound,
     SeenSound, IntentSound, ConnectSound, SavedSound, Doing, Seen, Own, Known
<1> QED
  BY <1>1, <1>2

LEMMA Inductive == Spec => []IInv
  BY InitIInv, StepIInv, PTL DEF Spec

\* Every value has its type in every reachable state: a connection never reads the
\* attachment of a profile that does not exist, and no step writes half a root.
THEOREM TypeCorrect == Spec => []TypeOK
<1>1. IInv => TypeOK
  BY DEF IInv
<1> QED
  BY <1>1, Inductive, PTL

\* However many computers publish, in whatever order, and wherever they are cut, the
\* copy of store.go replaces a root only by one that may follow it.
THEOREM RootOrdered == Spec => RootMovesInOrder
<1>1. IInv /\ [Next]_vars => (root' # root => Follows(root', root))
  <2> SUFFICES ASSUME IInv, [Next]_vars, root' # root PROVE Follows(root', root)
    OBVIOUS
  <2>1. Next
    BY DEF vars, stored
  <2>2. PICK c \in Computers :
          \/ RequestStep(c)
          \/ BeginTakeover(c) \/ ResumeTakeover(c) \/ SaveCare(c)
          \/ \E kind \in Kinds, p \in Computers, own \in BOOLEAN : Connect(c, kind, p, own)
          \/ ResumeConnection(c) \/ CancelConnection(c) \/ Remove(c) \/ Cut(c)
    BY <2>1 DEF Next
  <2>3. CopyRoot(c)
    BY <2>2 DEF RequestStep, Put, ReadBack, Align, PublishApplied, Advance, Reread,
       PublishOwned, Published, Complete, AlignOwned, PublishProfile, Transition,
       AlignConnection, PublishFinal, Confirm, Attach, BeginTakeover, ResumeTakeover,
       SaveCare, Connect, ResumeConnection, CancelConnection, Remove, Cut, stored
  <2>4. root' = pub[c].data /\ root = pub[c].expected /\ pc[c] \in Publishing
    BY <2>3 DEF CopyRoot, Publishing
  <2> QED
    BY <2>4 DEF IInv, Sound, PublicationSound
<1> QED
  BY <1>1, Inductive, PTL DEF Spec, RootMovesInOrder
-----------------------------------------------------------------------------
(* The native owner.  That Kopia's owner is set, that the root moves on and  *)
(* that a profile changes hands are steps of different computers; the second *)
(* invariant says for each of them, wherever it stands, what the two others  *)
(* may have done meanwhile.                                                  *)

\* The steps of a connection behind the one that sets or verifies the native owner.
Past == {"connectFinal", "confirm", "attach"}

\* Requests carry the name of their computer, which is connecting or connected.
Named(c) ==
    /\ rec[c] # None => att[c] # None /\ rec[c].op.by = c
    /\ intent[c] # None => att[c] = None /\ intent[c].op.by = c /\ intent[c].goal.client = c

\* A computer is attached to one profile at most, which is that of its saved vault or of
\* its connection.
HoldersKnown(c) ==
    /\ \A p, q \in AttachedTo(c) : p = q
    /\ att[c] # None => AttachedTo(c) \subseteq {Own(c)}
    /\ intent[c] # None => AttachedTo(c) \subseteq {intent[c].profile}
    /\ intent[c] # None /\ intent[c].kind # "reconnect" /\ intent[c].state = "prepared"
          => AttachedTo(c) = {}

\* A connection that takes a profile but not the ownership, and verifies the native owner
\* it found when it was reviewed.
Verifies(c) ==
    /\ intent[c] # None /\ intent[c].kind = "takeover" /\ ~intent[c].own
    /\ intent[c].expected.owner # intent[c].profile

\* The profile a connection reviewed is never met again once it has changed hands.
ReviewKnown(c) ==
    LET i == intent[c] IN
    /\ i # None /\ i.kind = "join" => i.reviewed = None
    /\ i # None /\ i.kind = "takeover" =>
          /\ i.reviewed \in Attachments /\ Known(i.profile)
          /\ prof[i.profile].gen >= i.reviewed.gen
          /\ prof[i.profile].gen = i.reviewed.gen => prof[i.profile] = i.reviewed
          /\ i.goal.gen = i.reviewed.gen + 1
    /\ Verifies(c) => i.native # i.reviewed.client /\ i.native # c

Saves == \A c \in Computers : Named(c) /\ HoldersKnown(c) /\ ReviewKnown(c)

\* A request that has set the native owner is at one of the later steps of a takeover.
AlignedKnown(c) ==
    /\ c \in aligned =>
          /\ Doing(c) \in {"phase", "advance", "reread", "final", "published", "complete"}
          /\ rec[c] # None
    /\ Kopia /\ pc[c] \in {"phase", "final"} => c \in aligned

\* What is published, over which root, and where the request stands meanwhile.
WritesKnown(c) ==
    LET new == pub[c].data
        old == pub[c].expected
        after == pub[c].after IN
    pc[c] \in Publishing =>
        \/ after = "idle" /\ old.transfer = None /\ new.transfer = None /\ new.owner = old.owner
        \/ /\ after = "align" \/ (after = "phase" /\ ~Kopia)
           /\ rec[c] # None /\ c \notin aligned
           /\ old.transfer = None /\ new.transfer # None /\ new.transfer.op = rec[c].op
        \/ /\ after = "advance" /\ rec[c] # None
           /\ old.transfer # None /\ new.transfer # None
           /\ new.transfer.op = old.transfer.op /\ new.transfer.to = old.transfer.to
        \/ /\ after = "published" /\ rec[c] # None /\ (Kopia => c \in aligned)
           /\ old.transfer # None /\ old.transfer.op = rec[c].op
           /\ new.transfer = None /\ new.owner = old.transfer.to
        \/ /\ after = "connectAlign" /\ intent[c] # None /\ intent[c].own
           /\ new = intent[c].marker /\ old = intent[c].expected
        \/ /\ after = "confirm" /\ intent[c] # None /\ intent[c].own
           /\ new = intent[c].final /\ old = intent[c].marker

\* The root a takeover works on carries its own marker; a connection that takes the
\* ownership works on one it published.
ViewKnown(c) ==
    /\ Doing(c) \in {"align", "phase", "final"} => Seen(c).transfer.op = rec[c].op
    /\ Doing(c) = "connectAlign" /\ intent[c].own =>
          Seen(c) = intent[c].marker \/ Seen(c) = intent[c].final

Place(c) == AlignedKnown(c) /\ WritesKnown(c) /\ ViewKnown(c)

\* The native owner was set for the marker on the root, by a request still in progress.
AlignedFor(c) ==
    \/ c \in aligned /\ rec[c] # None /\ root.transfer.op = rec[c].op
    \/ /\ intent[c] # None /\ intent[c].own /\ root.transfer.op = intent[c].op
       /\ Doing(c) \in Past

\* The profile that owns the vault, or will with the next write of the root.
Needed(p) ==
    IF root.transfer = None THEN root.owner = p
    ELSE root.transfer.to = p /\ \E c \in Computers : AlignedFor(c)

\* The connection that took this profile has not come to the native owner yet.
Awaits(d, p) ==
    /\ intent[d] # None /\ intent[d].kind = "takeover" /\ intent[d].profile = p
    /\ prof[p] = intent[d].goal /\ Doing(d) \notin Past

NativeKnown ==
    \A p \in Computers : Needed(p) =>
        Known(p) /\ (native = prof[p].client \/ \E d \in Computers : Awaits(d, p))

\* Where a connection took the profile of the owner in the belief that it was not the
\* owner's, it is refused when it verifies the native owner.
RefusesKnown(d) ==
    LET i == intent[d] IN
    Verifies(d) /\ Needed(i.profile) /\ (prof[i.profile] = i.reviewed \/ prof[i.profile] = i.goal)
       => native # i.native

Natives == NativeKnown /\ \A d \in Computers : RefusesKnown(d)

NInv == Saves /\ (\A c \in Computers : Place(c)) /\ (Kopia => Natives)

\* A step of one computer.
Step(c) ==
    \/ RequestStep(c)
    \/ BeginTakeover(c) \/ ResumeTakeover(c) \/ SaveCare(c)
    \/ \E kind \in Kinds, p \in Computers, own \in BOOLEAN : Connect(c, kind, p, own)
    \/ ResumeConnection(c) \/ CancelConnection(c) \/ Remove(c) \/ Cut(c)

\* Where a takeover goes on.
LEMMA Resumes ==
    ASSUME TypeOK, NEW c \in Computers, ResumeTakeover(c)
    PROVE  \/ Goto(c, "care") \/ Goto(c, "complete") \/ Goto(c, "advance") \/ Goto(c, "reread")
           \/ root.transfer # None /\ Goto(c, IF Kopia THEN "align" ELSE "phase")
           \/ root.transfer = None /\ PublishMarker(c, rec[c])
<1>1. rec[c] \in Records
  BY DEF ResumeTakeover, TypeOK
<1>2. rec[c].state \in {"reviewed", "native_owner_applied", "root_published"}
  BY <1>1 DEF Records, Phases
<1>3. CASE Goto(c, "care")
  BY <1>3
<1>4. CASE ResumeAt(c)
  <2>1. CASE rec[c].state = "reviewed" /\ root.transfer = None
    BY <1>4, <2>1 DEF ResumeAt
  <2>2. CASE rec[c].state = "reviewed" /\ root.transfer # None
    BY <1>4, <2>2 DEF ResumeAt
  <2>3. CASE rec[c].state = "native_owner_applied"
    BY <1>4, <2>3 DEF ResumeAt
  <2>4. CASE rec[c].state = "root_published"
    BY <1>4, <2>4 DEF ResumeAt
  <2> QED
    BY <1>2, <2>1, <2>2, <2>3, <2>4
<1> QED
  BY <1>3, <1>4 DEF ResumeTakeover

\* The steps that are no part of a publication.
LEMMA StepNames ==
    /\ {"idle", "align", "phase", "advance", "reread", "final", "published", "complete", "care",
        "profile", "transition", "connectAlign", "connectFinal", "confirm", "attach"}
          = Steps \ Publishing
    /\ TakeoverSteps \cap ConnectSteps = {}
  BY DEF Steps, Publishing, TakeoverSteps, ConnectSteps

\* A step moves what belongs to its computer.
LEMMA OnlyOne ==
    ASSUME TypeOK, NEW c \in Computers, Step(c)
    PROVE  Only(c) /\ \A d \in Computers \ {c} : d \in aligned' <=> d \in aligned
<1> USE DEF Only, Goto, Stop, Publish, Mark, stored, saved
<1>1. CASE Put(c) \/ CopyRoot(c) \/ ReadBack(c)
  BY <1>1 DEF Put, CopyRoot, ReadBack, TypeOK
<1>2. CASE Align(c) \/ PublishApplied(c) \/ Advance(c) \/ Reread(c) \/ PublishOwned(c)
  BY <1>2 DEF Align, PublishApplied, Advance, Reread, PublishOwned, TypeOK
<1>3. CASE Published(c) \/ Complete(c) \/ AlignOwned(c)
  BY <1>3 DEF Published, Complete, AlignOwned, TypeOK
<1>4. CASE PublishProfile(c) \/ Transition(c)
  BY <1>4 DEF PublishProfile, Transition, TypeOK
<1>5. CASE AlignConnection(c) \/ PublishFinal(c) \/ Confirm(c) \/ Attach(c)
  BY <1>5 DEF AlignConnection, PublishFinal, Confirm, Attach, TypeOK
<1>6. CASE BeginTakeover(c) \/ SaveCare(c)
  BY <1>6 DEF BeginTakeover, SaveCare, PublishMarker, TypeOK
<1>7. CASE ResumeTakeover(c)
  <2>1. \/ \E step \in Steps : Goto(c, step)
        \/ \E data, expected, name, after : Publish(c, data, expected, name, after)
    BY <1>7, Resumes, StepNames DEF PublishMarker
  <2>2. \A d \in Computers \ {c} : pc'[d] = pc[d] /\ pub'[d] = pub[d]
    BY <2>1 DEF TypeOK
  <2>3. view' = [view EXCEPT ![c] = root] /\ UNCHANGED <<att, rec, intent, aligned>>
    BY <1>7 DEF ResumeTakeover
  <2> QED
    BY <2>2, <2>3 DEF TypeOK
<1>8. CASE \E kind \in Kinds, p \in Computers, own \in BOOLEAN : Connect(c, kind, p, own)
  BY <1>8 DEF Connect, TypeOK
<1>9. CASE ResumeConnection(c) \/ Cut(c)
  BY <1>9 DEF ResumeConnection, Cut, TypeOK
<1>10. CASE CancelConnection(c) \/ Remove(c)
  BY <1>10 DEF CancelConnection, Remove, TypeOK
<1> QED
  BY <1>1, <1>2, <1>3, <1>4, <1>5, <1>6, <1>7, <1>8, <1>9, <1>10 DEF Step, RequestStep
\* A connection keeps all it was reviewed with; its state only leaves "prepared".
Kept(c) ==
    LET i == intent[c]
        j == intent'[c] IN
    /\ (j = None) <=> (i = None)
    /\ j.op = i.op /\ j.kind = i.kind /\ j.profile = i.profile /\ j.own = i.own
    /\ j.reviewed = i.reviewed /\ j.goal = i.goal /\ j.expected = i.expected
    /\ j.marker = i.marker /\ j.final = i.final /\ j.native = i.native
    /\ j.state = "prepared" => i.state = "prepared"

LEMMA MarkedKept ==
    ASSUME TypeOK, NEW c \in Computers, intent[c] \in Intents,
           NEW state \in {"publication_started", "attachment_pending"},
           intent' = intent \/ Mark(c, state)
    PROVE  Kept(c)
<1> DEFINE j == [intent[c] EXCEPT !.state = state]
<1>1. /\ j \in Intents /\ j.op = intent[c].op /\ j.kind = intent[c].kind
      /\ j.profile = intent[c].profile /\ j.own = intent[c].own
      /\ j.reviewed = intent[c].reviewed /\ j.goal = intent[c].goal
      /\ j.expected = intent[c].expected /\ j.marker = intent[c].marker
      /\ j.final = intent[c].final /\ j.native = intent[c].native /\ j.state = state
  BY DEF Intents
<1>2. intent' = intent \/ intent'[c] = j
  BY DEF Mark, TypeOK
<1> HIDE DEF j
<1> QED
  BY <1>1, <1>2, NoneIsNoData DEF Kept

\* The profile a connection publishes.
Takes(c) ==
    /\ intent[c].kind # "reconnect" /\ prof[intent[c].profile] = intent[c].reviewed
    /\ prof' = [prof EXCEPT ![intent[c].profile] = intent[c].goal]
    /\ intent'[c].state # "prepared"

\* What becomes of the saved state of a computer, and of the profiles.
LEMMA SavedMoves ==
    ASSUME IInv, NEW c \in Computers, Named(c), Step(c)
    PROVE  \/ /\ UNCHANGED <<att, intent, prof>>
              /\ rec'[c] = None \/ (att[c] # None /\ rec'[c].op.by = c)
           \/ /\ UNCHANGED <<att, rec>> /\ intent[c] # None /\ Kept(c)
              /\ UNCHANGED prof \/ Takes(c)
           \/ /\ UNCHANGED <<att, rec, prof>> /\ root.transfer = None /\ att[c] = None
              /\ intent[c] = None /\ pc[c] = "idle"
              /\ \E kind \in Kinds, p \in Computers, own \in BOOLEAN :
                    /\ intent'[c] = Intent(c, kind, p, own)
                    /\ Choice(c, kind, p) /\ (own => root.owner # p)
           \/ /\ UNCHANGED <<att, rec, prof>>
              /\ intent[c].state = "prepared" /\ intent'[c] = None
           \/ /\ UNCHANGED <<rec, prof>> /\ intent[c] # None /\ intent'[c] = None
              /\ Doing(c) = "attach" /\ Own(c)' = intent[c].profile
           \/ UNCHANGED <<intent, prof>> /\ att'[c] = None /\ rec'[c] = None
<1> USE DEF stored, saved
<1>1. TypeOK /\ Sound(c)
  BY DEF IInv
<1>2. rec[c] = None \/ (att[c] # None /\ rec[c].op.by = c)
  BY DEF Named
<1>3. CASE \/ Put(c) \/ CopyRoot(c) \/ ReadBack(c) \/ Align(c) \/ PublishApplied(c)
           \/ Reread(c) \/ PublishOwned(c) \/ ResumeTakeover(c) \/ SaveCare(c)
           \/ PublishFinal(c) \/ ResumeConnection(c) \/ Cut(c) \/ AlignOwned(c)
  <2>1. UNCHANGED <<att, rec, intent, prof>>
    BY <1>3 DEF Put, CopyRoot, ReadBack, Align, PublishApplied, Reread, PublishOwned, AlignOwned,
       ResumeTakeover, SaveCare, PublishFinal, ResumeConnection, Cut
  <2> QED
    BY <1>2, <2>1
<1>4. CASE Advance(c) \/ Published(c)
  <2>1. rec[c] \in Records
    BY <1>1, <1>4 DEF Advance, Published, Sound, TakeoverSound, TakeoverSteps, Doing, Publishing
  <2>2. rec'[c].op = rec[c].op /\ UNCHANGED <<att, intent, prof>>
    BY <1>1, <1>4, <2>1 DEF Advance, Published, TypeOK, Records
  <2>3. rec[c] # None
    BY <2>1, NoneIsNoData
  <2> QED
    BY <1>2, <2>2, <2>3
<1>5. CASE Complete(c)
  <2>1. UNCHANGED <<att, intent, prof>> /\ rec'[c] = None
    BY <1>1, <1>5 DEF Complete, TypeOK
  <2> QED
    BY <1>2, <2>1
<1>6. CASE BeginTakeover(c)
  <2>1. UNCHANGED <<att, intent, prof>> /\ att[c] # None /\ rec'[c] = NewRecord(c)
    BY <1>1, <1>6 DEF BeginTakeover, Attached, TypeOK
  <2> QED
    BY <2>1 DEF NewRecord
<1>7. ASSUME Doing(c) \in ConnectSteps
      PROVE  /\ intent[c] \in Intents /\ intent[c] # None
             /\ Begun(c) \in {"publication_started", "attachment_pending"}
  BY <1>1, <1>7, NoneIsNoData DEF Sound, ConnectSound, Begun, Intents
<1>8. CASE Transition(c) \/ AlignConnection(c) \/ Confirm(c)
  <2>1. Doing(c) \in ConnectSteps /\ UNCHANGED <<att, rec, prof>>
    BY <1>8 DEF Transition, AlignConnection, Confirm, Doing, Publishing, ConnectSteps
  <2>2. intent' = intent \/ Mark(c, Begun(c)) \/ Mark(c, "attachment_pending")
    BY <1>8 DEF Transition, AlignConnection, Confirm
  <2> QED
    BY <1>1, <1>7, <2>1, <2>2, MarkedKept
<1>9. CASE PublishProfile(c)
  <2>1. Doing(c) \in ConnectSteps /\ UNCHANGED <<att, rec>>
    BY <1>9 DEF PublishProfile, Doing, Publishing, ConnectSteps
  <2>2. intent' = intent \/ Mark(c, Begun(c))
    BY <1>9 DEF PublishProfile
  <2>3. Kept(c)
    BY <1>1, <1>7, <2>1, <2>2, MarkedKept
  <2>4. UNCHANGED prof \/ Takes(c)
    <3>1. CASE /\ intent[c].kind # "reconnect" /\ prof[intent[c].profile] = intent[c].reviewed
               /\ prof' = [prof EXCEPT ![intent[c].profile] = intent[c].goal] /\ Mark(c, Begun(c))
      <4>1. intent'[c].state = Begun(c)
        BY <1>1, <1>7, <2>1, <3>1 DEF Mark, TypeOK, Intents
      <4> QED
        BY <1>7, <2>1, <3>1, <4>1 DEF Takes
    <3> QED
      BY <1>9, <3>1 DEF PublishProfile
  <2> QED
    BY <1>7, <2>1, <2>3, <2>4
<1>10. CASE \E kind \in Kinds, p \in Computers, own \in BOOLEAN : Connect(c, kind, p, own)
  BY <1>1, <1>10 DEF Connect, TypeOK
<1>11. CASE CancelConnection(c)
  BY <1>1, <1>11 DEF CancelConnection, TypeOK
<1>12. CASE Attach(c)
  <2>1. /\ UNCHANGED <<rec, prof>> /\ intent'[c] = None /\ Doing(c) = "attach"
        /\ att'[c] = [profile |-> intent[c].profile, gen |-> intent[c].goal.gen]
    BY <1>1, <1>12 DEF Attach, TypeOK, Doing, Publishing
  <2> QED
    BY <1>7, <2>1 DEF ConnectSteps, Own
<1>13. CASE Remove(c)
  BY <1>1, <1>13 DEF Remove, TypeOK
<1> QED
  BY <1>3, <1>4, <1>5, <1>6, <1>8, <1>9, <1>10, <1>11, <1>12, <1>13 DEF Step, RequestStep

\* Requests carry the name of their computer (takeover and connection records).
LEMMA NamedKept ==
    ASSUME IInv, NEW c \in Computers, Named(c), Step(c)
    PROVE  Named(c)'
<1>1. CASE UNCHANGED intent
  BY <1>1, SavedMoves DEF Named, Kept
<1>2. CASE /\ UNCHANGED <<att, rec>> /\ intent[c] # None /\ Kept(c)
  BY <1>2 DEF Named, Kept
<1>3. ASSUME UNCHANGED <<att, rec>>, att[c] = None, NEW kind \in Kinds, NEW p \in Computers,
             NEW own \in BOOLEAN, intent'[c] = Intent(c, kind, p, own), Choice(c, kind, p)
      PROVE  Named(c)'
  <2>1. Goal(c, kind, p).client = c
    BY <1>3 DEF Goal, Choice, Kinds, AttachedTo
  <2>2. intent'[c].op.by = c /\ intent'[c].goal.client = c
    BY <1>3, <2>1 DEF Intent
  <2> QED
    BY <1>3, <2>2 DEF Named
<1>4. CASE intent'[c] = None /\ UNCHANGED rec
  BY <1>4, SavedMoves DEF Named, Kept
<1> QED
  BY <1>1, <1>2, <1>3, <1>4, SavedMoves

\* What a step does to the profiles: at most one changes hands, to this computer.
LEMMA ProfilesMove ==
    ASSUME IInv, NEW c \in Computers, Saves, Step(c)
    PROVE  \/ UNCHANGED prof
           \/ /\ intent[c] \in Intents /\ Kept(c) /\ Takes(c) /\ UNCHANGED att
              /\ intent[c].profile \in Computers /\ intent[c].goal \in Attachments
              /\ intent[c].goal.client = c
              /\ prof'[intent[c].profile] = intent[c].goal
              /\ \A p \in Computers \ {intent[c].profile} : prof'[p] = prof[p]
<1>1. TypeOK /\ Named(c)
  BY DEF IInv, Saves
<1>2. CASE intent[c] # None /\ Kept(c) /\ Takes(c) /\ UNCHANGED att
  <2>1. /\ intent[c] \in Intents /\ intent[c].goal.client = c
        /\ prof' = [prof EXCEPT ![intent[c].profile] = intent[c].goal]
    BY <1>1, <1>2 DEF TypeOK, Named, Takes
  <2>2. intent[c].profile \in Computers /\ intent[c].goal \in Attachments
    BY <2>1 DEF Intents
  <2> QED
    BY <1>1, <1>2, <2>1, <2>2 DEF TypeOK
<1> QED
  BY <1>1, <1>2, SavedMoves

LEMMA HoldersKept ==
    ASSUME IInv, NEW c \in Computers, Saves, Step(c), NEW d \in Computers
    PROVE  HoldersKnown(d)'
<1>1. TypeOK /\ Named(d) /\ HoldersKnown(d) /\ Only(c) /\ Named(c)
  BY OnlyOne DEF IInv, Saves
<1>2. ASSUME d # c PROVE HoldersKnown(d)'
  <2>1. att'[d] = att[d] /\ intent'[d] = intent[d] /\ Own(d)' = Own(d)
    BY <1>1, <1>2 DEF Only, Own
  <2>2. AttachedTo(d)' \subseteq AttachedTo(d)
    BY <1>1, <1>2, ProfilesMove DEF AttachedTo
  <2> QED
    BY <1>1, <2>1, <2>2 DEF HoldersKnown
<1>3. ASSUME d = c PROVE HoldersKnown(c)'
  <2>1. HoldersKnown(c)
    BY <1>1, <1>3
  <2>2. CASE Takes(c) /\ UNCHANGED <<att, rec>> /\ intent[c] # None /\ Kept(c)
    <3>1. intent[c].profile \in Computers /\ intent[c].goal.client = c /\ att[c] = None
      BY <1>1, <2>2 DEF TypeOK, Intents, Named
    <3>2. AttachedTo(c)' \subseteq {intent[c].profile}
      BY <1>1, <2>1, <2>2, <3>1 DEF AttachedTo, Takes, TypeOK, HoldersKnown
    <3> QED
      BY <2>2, <3>1, <3>2 DEF HoldersKnown, Takes, Kept
  <2>3. CASE UNCHANGED prof
    <3>1. AttachedTo(c)' = AttachedTo(c)
      BY <2>3 DEF AttachedTo
    <3>2. CASE UNCHANGED att /\ (UNCHANGED intent \/ (intent[c] # None /\ Kept(c)))
      BY <2>1, <3>1, <3>2 DEF HoldersKnown, Kept, Own
    <3>3. CASE UNCHANGED att /\ intent'[c] = None
      BY <2>1, <3>1, <3>3 DEF HoldersKnown, Own
    <3>4. CASE att'[c] = None /\ UNCHANGED intent
      BY <2>1, <3>1, <3>4 DEF HoldersKnown
    <3>5. CASE intent[c] # None /\ intent'[c] = None /\ Own(c)' = intent[c].profile
      BY <2>1, <3>1, <3>5 DEF HoldersKnown
    <3>6. ASSUME UNCHANGED att, att[c] = None, NEW kind \in Kinds, NEW p \in Computers,
                 NEW own \in BOOLEAN, intent'[c] = Intent(c, kind, p, own), Choice(c, kind, p)
          PROVE  HoldersKnown(c)'
      <4>1. intent'[c].profile = p /\ intent'[c].kind = kind
        BY <3>6 DEF Intent
      <4>2. AttachedTo(c) \subseteq {p} /\ (kind # "reconnect" => AttachedTo(c) = {})
        BY <3>6 DEF Choice, Kinds
      <4> QED
        BY <2>1, <3>1, <3>6, <4>1, <4>2 DEF HoldersKnown
    <3> QED
      BY <1>1, <3>2, <3>3, <3>4, <3>5, <3>6, <1>3, <2>3, SavedMoves
  <2> QED
    BY <1>1, <1>3, <2>2, <2>3, SavedMoves
<1> QED
  BY <1>2, <1>3

LEMMA ReviewKept ==
    ASSUME IInv, NEW c \in Computers, Saves, Step(c), NEW d \in Computers
    PROVE  ReviewKnown(d)'
<1>1. TypeOK /\ Named(d) /\ HoldersKnown(d) /\ ReviewKnown(d) /\ Only(c) /\ Named(c)
  BY OnlyOne DEF IInv, Saves
\* The intent of d stays; a profile that changes hands gets a later generation.
<1>2. ASSUME intent[d] # None, Kept(d) \/ intent'[d] = intent[d] PROVE ReviewKnown(d)'
  <2> DEFINE i == intent[d]
             x == i.profile
  <2>1. /\ i \in Intents /\ x \in Computers
        /\ intent'[d].kind = i.kind /\ intent'[d].profile = x /\ intent'[d].own = i.own
        /\ intent'[d].reviewed = i.reviewed /\ intent'[d].goal = i.goal
        /\ intent'[d].expected = i.expected /\ intent'[d].native = i.native
        /\ intent'[d] # None
    BY <1>1, <1>2 DEF Kept, TypeOK, Intents
  <2>2. Verifies(d)' <=> Verifies(d)
    BY <1>2, <2>1 DEF Verifies
  <2>3. i.kind = "takeover" =>
          /\ prof'[x] \in Attachments /\ prof'[x].gen >= i.reviewed.gen
          /\ prof'[x].gen = i.reviewed.gen => prof'[x] = i.reviewed
    <3> SUFFICES ASSUME i.kind = "takeover" PROVE
          /\ prof'[x] \in Attachments /\ prof'[x].gen >= i.reviewed.gen
          /\ prof'[x].gen = i.reviewed.gen => prof'[x] = i.reviewed
      OBVIOUS
    <3>1. /\ i.reviewed \in Attachments /\ Known(x) /\ prof[x].gen >= i.reviewed.gen
          /\ prof[x].gen = i.reviewed.gen => prof[x] = i.reviewed
      BY <1>1, <1>2 DEF ReviewKnown
    <3>2. CASE prof'[x] = prof[x]
      BY <3>1, <3>2 DEF Known
    <3>3. CASE prof'[x] # prof[x]
      <4> DEFINE j == intent[c]
      <4>1. /\ j \in Intents /\ Takes(c) /\ j.profile = x /\ j.goal \in Attachments
            /\ prof'[x] = j.goal
        BY <1>1, <2>1, <3>3, ProfilesMove
      <4>2. prof[x] = j.reviewed /\ prof[x] \in Attachments /\ prof[x] # None
        BY <3>1, <4>1, NoneIsNoData DEF Takes, Known
      <4>3. j.kind = "takeover" /\ ReviewKnown(c) /\ j # None
        BY <4>1, <4>2, NoneIsNoData DEF Takes, Intents, Kinds, Saves, ReviewKnown
      <4>4. j.goal.gen = prof[x].gen + 1
        BY <4>2, <4>3 DEF ReviewKnown
      <4>5. prof[x].gen \in Nat /\ i.reviewed.gen \in Nat
        BY <3>1, <4>2 DEF Attachments
      <4> QED
        BY <3>1, <4>1, <4>4, <4>5 DEF Known
    <3> QED
      BY <3>2, <3>3
  <2> QED
    BY <1>1, <1>2, <2>1, <2>2, <2>3 DEF ReviewKnown, Verifies, Known
<1>3. ASSUME intent'[d] = None PROVE ReviewKnown(d)'
  BY <1>3 DEF ReviewKnown, Verifies
\* A review: the holders of two profiles are two computers, and none of them this one.
<1>4. ASSUME d = c, UNCHANGED prof, NEW kind \in Kinds, NEW p \in Computers,
             NEW own \in BOOLEAN, intent'[c] = Intent(c, kind, p, own), Choice(c, kind, p)
      PROVE  ReviewKnown(d)'
  <2> DEFINE j == intent'[c]
  <2>1. /\ j.kind = kind /\ j.profile = p /\ j.own = own /\ j.reviewed = prof[p]
        /\ j.goal = Goal(c, kind, p) /\ j.expected = root
        /\ j.native = IF own \/ root.owner = p THEN c ELSE prof[root.owner].client
    BY <1>4 DEF Intent
  <2> HIDE DEF j
  <2>2. kind = "join" => j.reviewed = None
    BY <1>4, <2>1 DEF Choice
  <2>3. kind = "takeover" =>
          /\ prof[p] \in Attachments /\ AttachedTo(c) = {}
          /\ j.goal = [client |-> c, gen |-> prof[p].gen + 1]
    BY <1>1, <1>4, <2>1 DEF Choice, Goal, TypeOK
  <2>4. kind = "takeover" =>
          /\ j.reviewed \in Attachments /\ Known(p)' /\ prof'[p].gen >= j.reviewed.gen
          /\ prof'[p].gen = j.reviewed.gen => prof'[p] = j.reviewed
          /\ j.goal.gen = j.reviewed.gen + 1
    BY <1>4, <2>1, <2>3 DEF Known, Attachments
  <2>5. ASSUME kind = "takeover", ~own, root.owner # p
        PROVE  j.native # j.reviewed.client /\ j.native # c
    <3>1. /\ prof[root.owner] \in Attachments /\ prof[p] \in Attachments
          /\ root.owner \in Computers /\ j.native = prof[root.owner].client
      BY <2>1, <2>3, <2>5 DEF IInv, Known, TypeOK, Roots
    <3>2. j.native \in Computers /\ j.reviewed = prof[p]
      BY <2>1, <3>1 DEF Attachments
    <3>3. root.owner \in AttachedTo(j.native)
      BY <3>1, NoneIsNoData DEF AttachedTo
    <3>4. j.native = prof[p].client => p \in AttachedTo(j.native)
      BY <3>1, NoneIsNoData DEF AttachedTo
    <3> QED
      BY <2>3, <2>5, <3>2, <3>3, <3>4 DEF Saves, HoldersKnown
  <2>6. Verifies(c)' => kind = "takeover" /\ ~own /\ root.owner # p
    BY <2>1 DEF Verifies, j
  <2> QED
    BY <1>4, <2>1, <2>2, <2>4, <2>5, <2>6 DEF ReviewKnown, j
<1>5. CASE d # c /\ intent[d] # None
  BY <1>1, <1>2, <1>5 DEF Only
<1>6. CASE d # c /\ intent[d] = None
  BY <1>1, <1>3, <1>6 DEF Only
<1>7. CASE d = c
  <2>1. CASE UNCHANGED intent
    BY <1>2, <1>3, <1>7, <2>1
  <2> QED
    BY <1>1, <1>2, <1>3, <1>4, <1>7, <2>1, SavedMoves
<1> QED
  BY <1>5, <1>6, <1>7

LEMMA SavesKept ==
    ASSUME IInv, NEW c \in Computers, Saves, Step(c)
    PROVE  Saves'
<1>1. \A d \in Computers : Named(d)'
  <2>1. \A d \in Computers \ {c} : Named(d)'
    BY OnlyOne DEF IInv, Saves, Named, Only
  <2>2. Named(c)'
    BY NamedKept DEF Saves
  <2> QED
    BY <2>1, <2>2
<1> QED
  BY <1>1, HoldersKept, ReviewKept DEF Saves

\* The moves of a request.
LEMMA Moved ==
    ASSUME TypeOK, NEW c \in Computers
    PROVE  /\ \A step \in Steps \ Publishing : Goto(c, step) =>
                  pc'[c] = step /\ Doing(c)' = step /\ Seen(c)' = view'[c]
           /\ Stop(c) => pc'[c] = "idle" /\ Doing(c)' = "idle" /\ c \notin aligned'
           /\ \A data, expected, name, after : Publish(c, data, expected, name, after) =>
                  /\ pc'[c] = "put" /\ pub'[c].data = data /\ pub'[c].expected = expected
                  /\ pub'[c].after = after /\ Doing(c)' = after /\ Seen(c)' = data
<1>1. \A step \in Steps \ Publishing : Goto(c, step) =>
          pc'[c] = step /\ Doing(c)' = step /\ Seen(c)' = view'[c]
  BY DEF Goto, TypeOK, Doing, Seen
<1>2. Stop(c) => pc'[c] = "idle" /\ Doing(c)' = "idle" /\ c \notin aligned'
  BY DEF Stop, TypeOK, Doing, Publishing
<1>3. ASSUME NEW data, NEW expected, NEW name, NEW after,
             Publish(c, data, expected, name, after)
      PROVE  /\ pc'[c] = "put" /\ pub'[c].data = data /\ pub'[c].expected = expected
             /\ pub'[c].after = after /\ Doing(c)' = after /\ Seen(c)' = data
  <2>1. pc'[c] = "put" /\ pub'[c] = Publication(data, expected, name, after)
    BY <1>3 DEF Publish, TypeOK
  <2> QED
    BY <2>1 DEF Publication, Doing, Seen, Publishing
<1> QED
  BY <1>1, <1>2, <1>3

\* A place where nothing is published, written over or aligned.
LEMMA Resting ==
    ASSUME NEW c \in Computers, c \notin aligned', Doing(c)' = pc'[c],
           pc'[c] \in {"idle", "advance", "reread", "published", "complete", "care", "profile",
                       "transition", "connectFinal", "confirm", "attach"}
    PROVE  Place(c)'
  BY DEF Place, AlignedKnown, WritesKnown, ViewKnown, Publishing

LEMMA Halted ==
    ASSUME TypeOK, NEW c \in Computers, Stop(c)
    PROVE  Place(c)'
  BY Moved, Resting

\* The publication itself.
LEMMA PublicationPlace ==
    ASSUME IInv, NEW c \in Computers, Place(c), Put(c) \/ CopyRoot(c) \/ ReadBack(c)
    PROVE  Place(c)'
<1> USE DEF stored, saved
<1>1. /\ TypeOK /\ pc[c] \in Publishing /\ pub[c] \in Publications
      /\ pub[c].after \in Steps \ Publishing
      /\ Doing(c) = pub[c].after /\ Seen(c) = pub[c].data
      /\ UNCHANGED <<att, rec, intent>>
  BY DEF IInv, Sound, PublicationSound, Put, CopyRoot, ReadBack, Doing, Seen, Publishing,
     Publications
<1>2. CASE Stop(c)
  BY <1>1, <1>2, Halted
<1>3. CASE ~Stop(c) /\ (Put(c) \/ CopyRoot(c))
  <2>1. pc'[c] \in Publishing /\ pub'[c] = pub[c] /\ aligned' = aligned
    BY <1>1, <1>3 DEF Put, CopyRoot, Goto, TypeOK, Publishing
  <2>2. pc'[c] \notin {"phase", "final"}
    BY <2>1 DEF Publishing
  <2>3. Doing(c)' = Doing(c) /\ Seen(c)' = Seen(c)
    BY <1>1, <2>1 DEF Doing, Seen
  <2> QED
    BY <1>1, <2>1, <2>2, <2>3 DEF Place, AlignedKnown, WritesKnown, ViewKnown
<1>4. CASE ~Stop(c) /\ ReadBack(c)
  <2>1. /\ pc'[c] = pub[c].after /\ aligned' = aligned /\ root = pub[c].data
        /\ pub[c].after # "idle" => view'[c] = root
    BY <1>1, <1>4 DEF ReadBack, TypeOK
  <2>2. Doing(c)' = Doing(c) /\ (Doing(c) # "idle" => Seen(c)' = Seen(c))
    BY <1>1, <2>1 DEF Doing, Seen
  <2>3. AlignedKnown(c)'
    BY <1>1, <2>1, <2>2 DEF Place, AlignedKnown, WritesKnown
  <2>4. WritesKnown(c)' /\ ViewKnown(c)'
    BY <1>1, <2>1, <2>2 DEF Place, WritesKnown, ViewKnown
  <2> QED
    BY <2>3, <2>4 DEF Place
<1> QED
  BY <1>2, <1>3, <1>4

\* The first root of a takeover.
LEMMA MarkerWritten ==
    ASSUME TypeOK, NEW c \in Computers, NEW r \in Records, root.transfer = None,
           PublishMarker(c, r), rec'[c] = r, c \notin aligned, UNCHANGED aligned
    PROVE  Place(c)'
<1> DEFINE m == Marked(root, r.op, r.from, r.to)
           next == IF Kopia THEN "align" ELSE "phase"
<1>1. m.transfer \in Transfers /\ m.transfer # None
  <2>1. r.op \in Ops /\ r.from \in Computers /\ r.to \in Computers /\ root \in Roots
    BY DEF Records, TypeOK
  <2> QED
    BY <2>1, MarkedRoot, NoneIsNoData
<1>2. m.transfer.op = r.op
  BY DEF Marked
<1>3. /\ pc'[c] = "put" /\ pub'[c].data = m /\ pub'[c].expected = root
      /\ pub'[c].after = next /\ Doing(c)' = next /\ Seen(c)' = m
  BY Moved DEF PublishMarker
<1> HIDE DEF m
<1>4. r # None
  BY NoneIsNoData
<1>5. AlignedKnown(c)'
  BY <1>3 DEF AlignedKnown
<1>6. WritesKnown(c)'
  BY <1>1, <1>2, <1>3, <1>4 DEF WritesKnown
<1>7. ViewKnown(c)'
  BY <1>2, <1>3 DEF ViewKnown
<1> QED
  BY <1>5, <1>6, <1>7 DEF Place

\* The steps of a takeover.
LEMMA TakeoverPlace ==
    ASSUME IInv, NEW c \in Computers, Place(c),
           \/ BeginTakeover(c) \/ ResumeTakeover(c) \/ Align(c) \/ PublishApplied(c)
           \/ Advance(c) \/ Reread(c) \/ PublishOwned(c) \/ Published(c) \/ Complete(c)
           \/ AlignOwned(c) \/ SaveCare(c)
    PROVE  Place(c)'
<1> USE DEF stored, saved
<1>1. TypeOK /\ Sound(c) /\ root \in Roots
  BY DEF IInv, TypeOK
<1>2. CASE BeginTakeover(c)
  <2> DEFINE r == NewRecord(c)
  <2>1. /\ root.transfer = None /\ PublishMarker(c, r) /\ UNCHANGED aligned /\ pc[c] = "idle"
        /\ rec'[c] = r
    BY <1>1, <1>2 DEF BeginTakeover, MarkerAllowed, TypeOK
  <2>2. r \in Records
    <3>1. att[c] \in Saved /\ begun + 1 \in 1..MaxOps
      BY <1>1, <1>2, OwnershipConstants DEF BeginTakeover, Attached, TypeOK
    <3> QED
      BY <1>1, <3>1 DEF NewRecord, Records, Ops, Roots, Phases, Saved, Own
  <2> HIDE DEF r
  <2>3. c \notin aligned
    BY <2>1 DEF Place, AlignedKnown, Doing, Publishing
  <2> QED
    BY <1>1, <2>1, <2>2, <2>3, MarkerWritten
<1>3. CASE ResumeTakeover(c)
  <2>1. /\ rec[c] \in Records /\ rec[c] # None /\ MarkerAllowed(c) /\ pc[c] = "idle"
        /\ view' = [view EXCEPT ![c] = root] /\ UNCHANGED <<root, rec, intent, aligned>>
    BY <1>1, <1>3 DEF ResumeTakeover, TypeOK
  <2>2. c \notin aligned
    BY <2>1 DEF Place, AlignedKnown, Doing, Publishing
  <2>3. CASE Goto(c, "care") \/ Goto(c, "complete") \/ Goto(c, "advance") \/ Goto(c, "reread")
    BY <1>1, <2>1, <2>2, <2>3, Moved, StepNames, Resting
  <2>4. CASE root.transfer # None /\ Goto(c, IF Kopia THEN "align" ELSE "phase")
    <3>1. /\ pc'[c] = IF Kopia THEN "align" ELSE "phase"
          /\ Doing(c)' = pc'[c] /\ Seen(c)' = root
      BY <1>1, <2>1, <2>4, Moved, StepNames DEF TypeOK
    <3>2. root.transfer.op = rec'[c].op
      BY <2>1, <2>4 DEF MarkerAllowed
    <3> QED
      BY <2>1, <2>2, <3>1, <3>2
         DEF Place, AlignedKnown, WritesKnown, ViewKnown, Publishing
  <2>5. CASE root.transfer = None /\ PublishMarker(c, rec[c])
    BY <1>1, <2>1, <2>2, <2>5, MarkerWritten
  <2> QED
    BY <1>1, <1>3, <2>3, <2>4, <2>5, Resumes
<1>4. CASE Align(c)
  <2>1. CASE Stop(c)
    BY <1>1, <2>1, Halted
  <2>2. CASE ~Stop(c)
    <3> DEFINE step == IF rec[c].state = "reviewed" THEN "phase" ELSE "final"
    <3>1. /\ Goto(c, step) /\ aligned' = aligned \cup {c} /\ rec[c] # None
          /\ UNCHANGED <<rec, intent, view>> /\ Doing(c) = "align" /\ Seen(c) = view[c]
      BY <1>4, <2>2 DEF Align, MarkerAllowed, Doing, Seen, Publishing
    <3>2. pc'[c] = step /\ Doing(c)' = step /\ Seen(c)' = Seen(c)
      BY <1>1, <3>1, Moved, StepNames
    <3> QED
      BY <3>1, <3>2 DEF Place, AlignedKnown, WritesKnown, ViewKnown, Publishing
  <2> QED
    BY <2>1, <2>2
<1>5. CASE PublishApplied(c)
  <2>1. /\ pc[c] = "phase" /\ Doing(c) = "phase" /\ Seen(c) = view[c] /\ rec[c] \in Records
        /\ view[c] \in Roots /\ view[c].transfer \in Transfers
    BY <1>1, <1>5 DEF PublishApplied, Doing, Seen, Publishing, Sound, SeenSound, TakeoverSound,
       TakeoverSteps
  <2> DEFINE m == Applied(view[c])
             t == view[c].transfer
  <2>2. m.transfer.op = t.op /\ m.transfer.to = t.to /\ m.transfer # None /\ t # None
    <3>1. [t EXCEPT !.phase = "native_owner_applied"] \in Transfers
      BY <2>1 DEF Transfers, Phases
    <3> QED
      BY <2>1, <3>1, NoneIsNoData DEF Applied, Transfers
  <2>3. /\ Publish(c, m, view[c], TakeoverName(rec[c].op), "advance")
        /\ UNCHANGED <<rec, intent, aligned>>
    BY <1>5 DEF PublishApplied
  <2> HIDE DEF m
  <2>4. /\ pc'[c] = "put" /\ pub'[c].data = m /\ pub'[c].expected = view[c]
        /\ pub'[c].after = "advance" /\ Doing(c)' = "advance" /\ Seen(c)' = m
    BY <1>1, <2>3, Moved
  <2>5. rec'[c] # None
    BY <2>1, <2>3, NoneIsNoData
  <2>6. AlignedKnown(c)' /\ ViewKnown(c)'
    BY <2>4, <2>5 DEF AlignedKnown, ViewKnown
  <2>7. WritesKnown(c)'
    BY <2>2, <2>4, <2>5 DEF WritesKnown
  <2> QED
    BY <2>6, <2>7 DEF Place
<1>6. CASE Advance(c) \/ Published(c)
  <2>1. /\ Doing(c) \in {"advance", "published"} /\ rec[c] \in Records
        /\ \/ Goto(c, "reread") \/ Goto(c, "complete")
        /\ UNCHANGED aligned
    BY <1>1, <1>6 DEF Advance, Published, Doing, Publishing, Sound, TakeoverSound, TakeoverSteps
  <2>2. rec'[c] # None
    <3>1. PICK s \in {"native_owner_applied", "root_published"} :
             rec' = [rec EXCEPT ![c].state = s]
      BY <1>6 DEF Advance, Published
    <3>2. [rec[c] EXCEPT !.state = s] \in Records
      BY <2>1 DEF Records, Phases
    <3>3. rec'[c] = [rec[c] EXCEPT !.state = s]
      BY <1>1, <3>1 DEF TypeOK
    <3> QED
      BY <3>2, <3>3, NoneIsNoData
  <2>3. pc'[c] \in {"reread", "complete"} /\ Doing(c)' = pc'[c]
    BY <1>1, <2>1, Moved, StepNames
  <2> QED
    BY <2>1, <2>2, <2>3 DEF Place, AlignedKnown, WritesKnown, ViewKnown, Publishing
<1>7. CASE Reread(c)
  <2>1. CASE Stop(c)
    BY <1>1, <2>1, Halted
  <2>2. CASE ~Stop(c)
    <3>1. /\ rec[c] # None /\ Doing(c) = "reread" /\ UNCHANGED <<rec, intent, aligned>>
          /\ \/ Goto(c, "published")
             \/ /\ root.transfer # None /\ MarkerAllowed(c)
                /\ Goto(c, IF Kopia /\ c \notin aligned THEN "align" ELSE "final")
                /\ view' = [view EXCEPT ![c] = root]
      <4>1. rec[c] \in Records
        BY <1>1, <1>7 DEF Reread, Sound, TakeoverSound, TakeoverSteps, Doing, Publishing
      <4> QED
        BY <1>7, <2>2, <4>1, NoneIsNoData DEF Reread, Doing, Publishing
    <3>2. CASE Goto(c, "published")
      <4>1. pc'[c] = "published" /\ Doing(c)' = "published"
        BY <1>1, <3>2, Moved, StepNames
      <4> QED
        BY <3>1, <4>1 DEF Place, AlignedKnown, WritesKnown, ViewKnown, Publishing
    <3>3. CASE /\ root.transfer # None /\ MarkerAllowed(c)
               /\ Goto(c, IF Kopia /\ c \notin aligned THEN "align" ELSE "final")
               /\ view' = [view EXCEPT ![c] = root]
      <4>1. /\ pc'[c] = IF Kopia /\ c \notin aligned THEN "align" ELSE "final"
            /\ Doing(c)' = pc'[c] /\ Seen(c)' = root
        BY <1>1, <3>3, Moved, StepNames DEF TypeOK
      <4>2. root.transfer.op = rec'[c].op
        BY <3>1, <3>3 DEF MarkerAllowed
      <4> QED
        BY <3>1, <4>1, <4>2 DEF Place, AlignedKnown, WritesKnown, ViewKnown, Publishing
    <3> QED
      BY <3>1, <3>2, <3>3
  <2> QED
    BY <2>1, <2>2
<1>8. CASE PublishOwned(c)
  <2>1. /\ Doing(c) = "final" /\ Seen(c) = view[c] /\ rec[c] \in Records
        /\ view[c] \in Roots /\ view[c].transfer \in Transfers /\ view[c].transfer.to = Own(c)
        /\ view[c].transfer.op = rec[c].op /\ (Kopia => c \in aligned)
    BY <1>1, <1>8 DEF PublishOwned, Doing, Seen, Publishing, Sound, SeenSound, TakeoverSound,
       TakeoverSteps, Place, AlignedKnown, ViewKnown
  <2> DEFINE m == OwnedBy(view[c], Own(c))
  <2>2. m.transfer = None /\ m.owner = view[c].transfer.to
    BY <2>1 DEF OwnedBy
  <2>3. /\ Publish(c, m, view[c], TakeoverName(rec[c].op), "published")
        /\ UNCHANGED <<rec, intent, aligned>>
    BY <1>8 DEF PublishOwned
  <2> HIDE DEF m
  <2>4. /\ pc'[c] = "put" /\ pub'[c].data = m /\ pub'[c].expected = view[c]
        /\ pub'[c].after = "published" /\ Doing(c)' = "published" /\ Seen(c)' = m
    BY <1>1, <2>3, Moved
  <2>5. rec'[c] # None /\ view[c].transfer # None
    BY <2>1, <2>3, NoneIsNoData
  <2>6. AlignedKnown(c)' /\ ViewKnown(c)'
    BY <2>4, <2>5 DEF AlignedKnown, ViewKnown
  <2>7. WritesKnown(c)'
    BY <2>1, <2>2, <2>3, <2>4, <2>5 DEF WritesKnown
  <2> QED
    BY <2>6, <2>7 DEF Place
<1>9. CASE Complete(c)
  BY <1>1, <1>9, Halted DEF Complete
<1>10. CASE AlignOwned(c)
  <2>1. CASE Stop(c)
    BY <1>1, <2>1, Halted
  <2>2. CASE ~Stop(c)
    <3>1. /\ Goto(c, "complete") \/ Goto(c, "published")
          /\ UNCHANGED aligned /\ Doing(c) = "care"
      BY <1>10, <2>2 DEF AlignOwned, Doing, Publishing
    <3>2. pc'[c] \in {"complete", "published"} /\ Doing(c)' = pc'[c]
      BY <1>1, <3>1, Moved, StepNames
    <3>3. c \notin aligned'
      BY <3>1 DEF Place, AlignedKnown
    <3> QED
      BY <3>2, <3>3, Resting
  <2> QED
    BY <2>1, <2>2
<1>11. CASE SaveCare(c)
  <2> DEFINE m == [root EXCEPT !.rev = @ + 1]
  <2>1. /\ Publish(c, m, root, None, "idle") /\ UNCHANGED aligned /\ root.transfer = None
        /\ c \notin aligned
    BY <1>11 DEF SaveCare, Place, AlignedKnown, Doing, Publishing
  <2>2. m.transfer = root.transfer /\ m.owner = root.owner
    BY <1>1 DEF Roots
  <2> HIDE DEF m
  <2>3. /\ pc'[c] = "put" /\ pub'[c].data = m /\ pub'[c].expected = root
        /\ pub'[c].after = "idle" /\ Doing(c)' = "idle"
    BY <1>1, <2>1, Moved
  <2> QED
    BY <2>1, <2>2, <2>3 DEF Place, AlignedKnown, WritesKnown, ViewKnown
<1> QED
  BY <1>2, <1>3, <1>4, <1>5, <1>6, <1>7, <1>8, <1>9, <1>10, <1>11

\* The steps of a connection, its begin and its end, removal and interruption.
LEMMA ConnectionPlace ==
    ASSUME IInv, NEW c \in Computers, Place(c), Named(c),
           \/ PublishProfile(c) \/ Transition(c) \/ AlignConnection(c) \/ PublishFinal(c)
           \/ Confirm(c) \/ Attach(c) \/ ResumeConnection(c) \/ CancelConnection(c)
           \/ Remove(c) \/ Cut(c)
           \/ \E kind \in Kinds, p \in Computers, own \in BOOLEAN : Connect(c, kind, p, own)
    PROVE  Place(c)'
<1> USE DEF stored, saved
<1>1. TypeOK /\ Sound(c)
  BY DEF IInv
<1>2. CASE Stop(c)
  BY <1>1, <1>2, Halted
<1>3. CASE \/ PublishProfile(c) \/ AlignConnection(c) \/ Confirm(c) \/ ResumeConnection(c)
           \/ \E kind \in Kinds, p \in Computers, own \in BOOLEAN : Connect(c, kind, p, own)
  <2>1. Doing(c) \in ConnectSteps \cup {"idle"}
    BY <1>3 DEF PublishProfile, AlignConnection, Confirm, ResumeConnection, Connect,
       Doing, Publishing, ConnectSteps
  <2>2. c \notin aligned
    BY <2>1 DEF Place, AlignedKnown, ConnectSteps
  <2>3. CASE ~Stop(c)
    <3>1. /\ aligned' = aligned
          /\ \E step \in {"transition", "connectFinal", "attach", "profile"} : Goto(c, step)
      BY <1>3, <2>3 DEF PublishProfile, AlignConnection, Confirm, ResumeConnection, Connect
    <3> QED
      BY <1>1, <2>2, <3>1, Moved, StepNames, Resting
  <2> QED
    BY <1>2, <2>3
<1>4. CASE (Transition(c) \/ PublishFinal(c)) /\ ~Stop(c)
  <2>1. /\ intent[c] \in Intents /\ intent[c] # None /\ c \notin aligned
        /\ UNCHANGED aligned
    BY <1>1, <1>4, NoneIsNoData DEF Transition, PublishFinal, Doing, Publishing, Sound,
       ConnectSound, ConnectSteps, Place, AlignedKnown
  <2>2. Kept(c)
    <3>1. Begun(c) \in {"publication_started", "attachment_pending"}
      BY <2>1 DEF Begun, Intents
    <3>2. intent' = intent \/ Mark(c, Begun(c))
      BY <1>4 DEF Transition, PublishFinal
    <3> QED
      BY <1>1, <2>1, <3>1, <3>2, MarkedKept
  <2>3. CASE Goto(c, "confirm")
    BY <1>1, <2>1, <2>3, Moved, StepNames, Resting
  <2>4. CASE /\ Goto(c, "connectAlign")
             /\ ~intent[c].own \/ (/\ root \in {intent[c].final, intent[c].marker}
                                  /\ view' = [view EXCEPT ![c] = root])
    <3>1. /\ pc'[c] = "connectAlign" /\ Doing(c)' = "connectAlign" /\ Seen(c)' = view'[c]
          /\ intent[c].own => Seen(c)' \in {intent[c].final, intent[c].marker}
      BY <1>1, <2>4, Moved, StepNames DEF TypeOK
    <3> QED
      BY <2>1, <2>2, <3>1
         DEF Place, AlignedKnown, WritesKnown, ViewKnown, Publishing, Kept
  <2>5. ASSUME NEW name, intent[c].own,
               Publish(c, intent[c].marker, intent[c].expected, name, "connectAlign")
        PROVE  Place(c)'
    <3>1. /\ pc'[c] = "put" /\ pub'[c].data = intent[c].marker
          /\ pub'[c].expected = intent[c].expected /\ pub'[c].after = "connectAlign"
          /\ Doing(c)' = "connectAlign" /\ Seen(c)' = intent[c].marker
      BY <1>1, <2>5, Moved
    <3> QED
      BY <2>1, <2>2, <2>5, <3>1 DEF Place, AlignedKnown, WritesKnown, ViewKnown, Kept
  <2>6. ASSUME NEW name, intent[c].own,
               Publish(c, intent[c].final, intent[c].marker, name, "confirm")
        PROVE  Place(c)'
    <3>1. /\ pc'[c] = "put" /\ pub'[c].data = intent[c].final
          /\ pub'[c].expected = intent[c].marker /\ pub'[c].after = "confirm"
          /\ Doing(c)' = "confirm"
      BY <1>1, <2>6, Moved
    <3> QED
      BY <2>1, <2>2, <2>6, <3>1 DEF Place, AlignedKnown, WritesKnown, ViewKnown, Kept
  <2> QED
    BY <1>4, <2>3, <2>4, <2>5, <2>6 DEF Transition, PublishFinal
<1>5. CASE CancelConnection(c) \/ Remove(c)
  <2>1. pc[c] = "idle" /\ UNCHANGED <<pc, pub, view, aligned>>
    BY <1>5 DEF CancelConnection, Remove
  <2>2. Doing(c)' = "idle" /\ pc'[c] = "idle" /\ c \notin aligned'
    BY <2>1 DEF Doing, Publishing, Place, AlignedKnown
  <2> QED
    BY <2>2, Resting
<1> QED
  BY <1>2, <1>3, <1>4, <1>5 DEF Attach, Cut

LEMMA PlacesKept ==
    ASSUME IInv, NEW c \in Computers, Saves, \A d \in Computers : Place(d), Step(c)
    PROVE  \A d \in Computers : Place(d)'
<1>1. ASSUME NEW d \in Computers \ {c} PROVE Place(d)'
  <2>1. /\ att'[d] = att[d] /\ rec'[d] = rec[d] /\ intent'[d] = intent[d]
        /\ pc'[d] = pc[d] /\ view'[d] = view[d] /\ pub'[d] = pub[d]
        /\ d \in aligned' <=> d \in aligned
    BY OnlyOne DEF IInv, Only
  <2>2. Doing(d)' = Doing(d) /\ Seen(d)' = Seen(d)
    BY <2>1 DEF Doing, Seen
  <2> QED
    BY <2>1, <2>2 DEF Place, AlignedKnown, WritesKnown, ViewKnown
<1>2. Place(c)'
  BY PublicationPlace, TakeoverPlace, ConnectionPlace DEF Step, RequestStep, Saves
<1> QED
  BY <1>1, <1>2

\* A request comes past the native owner only by the step that sets or verifies it.
LEMMA PastKept ==
    ASSUME IInv, NEW c \in Computers, Step(c), ~AlignConnection(c), Doing(c)' \in Past
    PROVE  Doing(c) \in Past
<1> USE DEF stored, saved
<1>1. TypeOK
  BY DEF IInv
<1>2. CASE Stop(c)
  BY <1>1, <1>2, Moved DEF Past
<1>3. CASE Put(c) \/ CopyRoot(c) \/ ReadBack(c)
  <2>1. CASE ~Stop(c)
    <3>1. Doing(c) = pub[c].after /\ pub[c].after \notin Publishing
      BY <1>3 DEF IInv, Sound, PublicationSound, Put, CopyRoot, ReadBack, Doing, Publishing
    <3>2. \/ pc'[c] \in Publishing /\ pub'[c] = pub[c]
          \/ pc'[c] = pub[c].after
      BY <1>1, <1>3, <2>1 DEF Put, CopyRoot, ReadBack, Goto, TypeOK, Publishing
    <3> QED
      BY <3>1, <3>2 DEF Doing
  <2> QED
    BY <1>2, <2>1
<1>4. CASE \/ Align(c) \/ Advance(c) \/ Reread(c) \/ Published(c) \/ Complete(c) \/ AlignOwned(c)
  <2>1. CASE ~Stop(c)
    <3>1. \E step \in {"phase", "final", "reread", "published", "align", "complete"} :
             Goto(c, step)
      BY <1>4, <2>1 DEF Align, Advance, Reread, Published, Complete, AlignOwned
    <3> QED
      BY <1>1, <3>1, Moved, StepNames DEF Past
  <2> QED
    BY <1>2, <2>1
<1>5. CASE PublishApplied(c) \/ PublishOwned(c) \/ BeginTakeover(c) \/ SaveCare(c)
  <2>1. \E data, expected, name : \E after \in {"advance", "published", "align", "phase", "idle"} :
           Publish(c, data, expected, name, after)
    BY <1>5 DEF PublishApplied, PublishOwned, BeginTakeover, SaveCare, PublishMarker
  <2> QED
    BY <1>1, <2>1, Moved DEF Past
<1>6. CASE ResumeTakeover(c)
  <2>1. \/ \E step \in {"care", "complete", "advance", "reread", "align", "phase"} : Goto(c, step)
        \/ \E data, expected, name : \E after \in {"align", "phase"} :
              Publish(c, data, expected, name, after)
    BY <1>1, <1>6, Resumes DEF PublishMarker
  <2> QED
    BY <1>1, <2>1, Moved, StepNames DEF Past
<1>7. CASE PublishProfile(c) \/ Transition(c) \/ ResumeConnection(c)
           \/ \E kind \in Kinds, p \in Computers, own \in BOOLEAN : Connect(c, kind, p, own)
  <2>1. CASE ~Stop(c)
    <3>1. \/ \E step \in {"transition", "connectAlign", "profile"} : Goto(c, step)
          \/ \E data, expected, name : Publish(c, data, expected, name, "connectAlign")
      BY <1>7, <2>1 DEF PublishProfile, Transition, ResumeConnection, Connect
    <3> QED
      BY <1>1, <3>1, Moved, StepNames DEF Past
  <2> QED
    BY <1>2, <2>1
<1>8. CASE PublishFinal(c) \/ Confirm(c) \/ Attach(c)
  BY <1>8 DEF PublishFinal, Confirm, Attach, Doing, Publishing, Past
<1>9. CASE CancelConnection(c) \/ Remove(c)
  <2>1. UNCHANGED <<pc, pub>>
    BY <1>9 DEF CancelConnection, Remove
  <2> QED
    BY <2>1 DEF Doing
<1> QED
  BY <1>2, <1>3, <1>4, <1>5, <1>6, <1>7, <1>8, <1>9 DEF Step, RequestStep, Cut

\* A step that neither sets the native owner nor makes a profile the one that is needed.
LEMMA NativesKept ==
    ASSUME IInv, Saves, Natives, UNCHANGED <<prof, native>>,
           \A p \in Computers : Needed(p)' => Needed(p),
           \A d, p \in Computers : Awaits(d, p) /\ Needed(p) => Awaits(d, p)',
           \A d \in Computers : Verifies(d)' =>
              /\ intent'[d].profile \in Computers
              /\ \/ ~Needed(intent'[d].profile)
                 \/ /\ Verifies(d) /\ intent'[d].profile = intent[d].profile
                    /\ intent'[d].reviewed = intent[d].reviewed
                    /\ intent'[d].goal = intent[d].goal /\ intent'[d].native = intent[d].native
    PROVE  Natives'
<1>1. NativeKnown'
  BY DEF Natives, NativeKnown, Known
<1>2. ASSUME NEW d \in Computers PROVE RefusesKnown(d)'
  BY DEF Natives, RefusesKnown
<1> QED
  BY <1>1, <1>2 DEF Natives

\* A step that sets the native owner to the holder of the profile that is needed.
LEMMA NativesSet ==
    ASSUME IInv, Saves, NEW c \in Computers, UNCHANGED prof, native' = c,
           \A p \in Computers : Needed(p)' => Known(p) /\ prof[p].client = c,
           \A d \in Computers : intent'[d] = intent[d] \/ Kept(d)
    PROVE  Natives'
<1>1. NativeKnown'
  BY DEF NativeKnown, Known
<1>2. ASSUME NEW d \in Computers, (Verifies(d) /\ Needed(intent[d].profile)
               /\ (prof[intent[d].profile] = intent[d].reviewed
                   \/ prof[intent[d].profile] = intent[d].goal))'
      PROVE  (native # intent[d].native)'
  <2> DEFINE i == intent[d]
  <2>1. /\ Verifies(d) /\ intent'[d].profile = i.profile /\ intent'[d].native = i.native
        /\ intent'[d].reviewed = i.reviewed /\ intent'[d].goal = i.goal
    BY <1>2 DEF Verifies, Kept
  <2>2. i \in Intents /\ i.profile \in Computers
    BY <2>1 DEF Verifies, IInv, TypeOK, Intents
  <2>3. prof[i.profile].client = c
    BY <1>2, <2>1, <2>2
  <2>4. c = i.reviewed.client \/ c = d
    BY <1>2, <2>1, <2>3 DEF Saves, Named, Verifies
  <2> QED
    BY <2>1, <2>4 DEF Saves, ReviewKnown
<1> QED
  BY <1>1, <1>2 DEF Natives, RefusesKnown

-----------------------------------------------------------------------------
(* The steps and the native owner.                                           *)

\* The request sets no native owner and does not come past it.
Quiet(c) == (c \in aligned' => c \in aligned) /\ (Doing(c)' \in Past => Doing(c) \in Past)

\* A request that has set the native owner keeps its record.
LEMMA RecordKept ==
    ASSUME IInv, NEW c \in Computers, Place(c), Step(c), c \in aligned, c \in aligned',
           rec'[c] # None
    PROVE  rec[c] # None /\ rec'[c].op = rec[c].op
<1> USE DEF stored, saved
<1>1. TypeOK /\ Sound(c)
  BY DEF IInv
<1>2. CASE Advance(c) \/ Published(c)
  <2>1. rec[c] \in Records
    BY <1>1, <1>2 DEF Advance, Published, Sound, TakeoverSound, TakeoverSteps, Doing, Publishing
  <2>2. rec'[c].op = rec[c].op
    BY <1>1, <1>2, <2>1 DEF Advance, Published, TypeOK, Records
  <2> QED
    BY <2>1, <2>2, NoneIsNoData
<1>3. CASE BeginTakeover(c)
  BY <1>3 DEF BeginTakeover, Place, AlignedKnown, Doing, Publishing
<1>4. CASE Complete(c)
  BY <1>1, <1>4, Moved DEF Complete
<1>5. CASE Remove(c)
  BY <1>1, <1>5 DEF Remove, TypeOK
<1>6. CASE rec' = rec
  BY <1>6
<1>7. rec' = rec \/ Advance(c) \/ Published(c) \/ BeginTakeover(c) \/ Complete(c) \/ Remove(c)
  <2>1. CASE \/ Put(c) \/ CopyRoot(c) \/ ReadBack(c) \/ Align(c) \/ PublishApplied(c)
             \/ Reread(c) \/ PublishOwned(c) \/ AlignOwned(c)
    BY <2>1 DEF Put, CopyRoot, ReadBack, Align, PublishApplied, Reread, PublishOwned, AlignOwned
  <2>2. CASE \/ PublishProfile(c) \/ Transition(c) \/ AlignConnection(c) \/ PublishFinal(c)
             \/ Confirm(c) \/ Attach(c)
    BY <2>2 DEF PublishProfile, Transition, AlignConnection, PublishFinal, Confirm, Attach
  <2>3. CASE \/ ResumeTakeover(c) \/ SaveCare(c) \/ ResumeConnection(c) \/ CancelConnection(c)
             \/ Cut(c)
             \/ \E kind \in Kinds, p \in Computers, own \in BOOLEAN : Connect(c, kind, p, own)
    BY <2>3 DEF ResumeTakeover, SaveCare, ResumeConnection, CancelConnection, Cut, Connect
  <2> QED
    BY <2>1, <2>2, <2>3 DEF Step, RequestStep
<1> QED
  BY <1>2, <1>3, <1>4, <1>5, <1>6, <1>7

LEMMA AlignedForKept ==
    ASSUME IInv, Saves, NEW c \in Computers, Place(c), Step(c), Quiet(c),
           root'.transfer.op = root.transfer.op, NEW d \in Computers, AlignedFor(d)'
    PROVE  AlignedFor(d)
<1>1. TypeOK /\ Named(c)
  BY DEF IInv, Saves
<1>2. CASE d # c
  <2>1. /\ rec'[d] = rec[d] /\ intent'[d] = intent[d] /\ Doing(d)' = Doing(d)
        /\ d \in aligned' <=> d \in aligned
    BY <1>1, <1>2, OnlyOne DEF Only, Doing
  <2> QED
    BY <2>1 DEF AlignedFor
<1>3. CASE /\ d = c /\ c \in aligned' /\ rec'[c] # None /\ root'.transfer.op = rec'[c].op
  BY <1>3, RecordKept DEF AlignedFor, Quiet
<1>4. CASE /\ d = c /\ intent'[c] # None /\ intent'[c].own
           /\ root'.transfer.op = intent'[c].op /\ Doing(c)' \in Past
  <2>1. Doing(c) \in Past
    BY <1>4 DEF Quiet
  <2>2. UNCHANGED intent \/ (intent[c] # None /\ Kept(c))
    BY <1>1, <1>4, <2>1, SavedMoves DEF Doing, Publishing, Past
  <2> QED
    BY <1>4, <2>1, <2>2 DEF AlignedFor, Kept
<1> QED
  BY <1>2, <1>3, <1>4 DEF AlignedFor

LEMMA NeededKept ==
    ASSUME IInv, Saves, NEW c \in Computers, Place(c), Step(c), Quiet(c), UNCHANGED root,
           NEW p \in Computers, Needed(p)'
    PROVE  Needed(p)
  BY AlignedForKept DEF Needed

\* A connection that awaits the native owner goes on awaiting it.
LEMMA AwaitsKept ==
    ASSUME IInv, Saves, NEW c \in Computers, Step(c), UNCHANGED prof,
           NEW d \in Computers, d = c => (Doing(c)' \in Past => Doing(c) \in Past),
           NEW p \in Computers, Awaits(d, p)
    PROVE  Awaits(d, p)'
<1>1. TypeOK /\ Named(d) /\ HoldersKnown(d) /\ Sound(d)
  BY DEF IInv, Saves
<1>2. CASE d # c
  <2>1. intent'[d] = intent[d] /\ Doing(d)' = Doing(d)
    BY <1>1, <1>2, OnlyOne DEF Only, Doing
  <2> QED
    BY <2>1 DEF Awaits
<1>3. CASE d = c
  <2>1. Doing(c)' \notin Past /\ Doing(c) # "attach" /\ intent[c] # None
    BY <1>3 DEF Awaits, Past
  <2>2. p \in AttachedTo(c)
    <3>1. prof[p] = intent[c].goal /\ intent[c].goal \in Attachments /\ intent[c].goal.client = c
      BY <1>1, <1>3, <2>1 DEF Awaits, Named, TypeOK, Intents
    <3> QED
      BY <3>1, NoneIsNoData DEF AttachedTo
  <2>3. intent[c].state # "prepared"
    BY <1>1, <1>3, <2>1, <2>2 DEF Awaits, HoldersKnown
  <2>4. UNCHANGED intent \/ Kept(c)
    BY <1>1, <1>3, <2>1, <2>3, SavedMoves
  <2> QED
    BY <1>3, <2>1, <2>4 DEF Awaits, Kept
<1> QED
  BY <1>2, <1>3

\* What a connection verifies is what it reviewed; at its review the profile it takes is
\* not the owner's.
LEMMA VerifiesKept ==
    ASSUME IInv, Saves, NEW c \in Computers, Step(c), NEW d \in Computers, Verifies(d)'
    PROVE  /\ intent'[d].profile \in Computers
           /\ \/ ~Needed(intent'[d].profile)
              \/ /\ Verifies(d) /\ intent'[d].profile = intent[d].profile
                 /\ intent'[d].reviewed = intent[d].reviewed
                 /\ intent'[d].goal = intent[d].goal /\ intent'[d].native = intent[d].native
<1>1. TypeOK /\ Named(d)
  BY DEF IInv, Saves
<1>2. CASE intent'[d] = intent[d] \/ (intent[d] # None /\ Kept(d))
  <2>1. intent[d] \in Intents
    BY <1>1, <1>2 DEF Verifies, Kept, TypeOK
  <2> QED
    BY <1>2, <2>1 DEF Verifies, Kept, Intents
<1>3. ASSUME d = c, root.transfer = None, NEW kind \in Kinds, NEW p \in Computers,
             NEW own \in BOOLEAN, intent'[c] = Intent(c, kind, p, own)
      PROVE  intent'[d].profile \in Computers /\ ~Needed(intent'[d].profile)
  <2>1. intent'[c].profile = p /\ intent'[c].expected = root
    BY <1>3 DEF Intent
  <2> QED
    BY <1>3, <2>1 DEF Verifies, Needed
<1>4. CASE d # c
  BY <1>1, <1>2, <1>4, OnlyOne DEF Only
<1>5. CASE d = c
  <2>1. intent'[c] # None
    BY <1>5 DEF Verifies
  <2> QED
    BY <1>1, <1>2, <1>3, <1>5, <2>1, SavedMoves
<1> QED
  BY <1>4, <1>5

\* A quiet step that makes no other profile the one that is needed.
LEMMA QuietStep ==
    ASSUME IInv, Saves, Natives, NEW c \in Computers, Place(c), Step(c), Quiet(c),
           UNCHANGED <<prof, native>>, \A p \in Computers : Needed(p)' => Needed(p)
    PROVE  Natives'
<1>1. \A d, p \in Computers : Awaits(d, p) /\ Needed(p) => Awaits(d, p)'
  BY AwaitsKept DEF Quiet
<1>2. \A d \in Computers : Verifies(d)' =>
              /\ intent'[d].profile \in Computers
              /\ \/ ~Needed(intent'[d].profile)
                 \/ /\ Verifies(d) /\ intent'[d].profile = intent[d].profile
                    /\ intent'[d].reviewed = intent[d].reviewed
                    /\ intent'[d].goal = intent[d].goal /\ intent'[d].native = intent[d].native
  BY VerifiesKept
<1> QED
  BY <1>1, <1>2, NativesKept

\* The roots of a connection that takes the ownership.
LEMMA IntentRoots ==
    ASSUME IInv, NEW c \in Computers, intent[c] # None
    PROVE  /\ intent[c].marker.transfer # None /\ intent[c].marker.transfer.op = intent[c].op
           /\ intent[c].marker.transfer.to = intent[c].profile
           /\ intent[c].final.transfer = None /\ intent[c].final.owner = intent[c].profile
           /\ intent[c].expected.transfer = None /\ intent[c] \in Intents
<1> DEFINE i == intent[c]
           m == Marked(i.expected, i.op, i.expected.owner, i.profile)
<1>1. i \in Intents /\ i.marker = m /\ i.final = OwnedBy(i.marker, i.profile)
      /\ i.expected.transfer = None
  BY DEF IInv, TypeOK, Sound, IntentSound
<1>2. /\ i.expected \in Roots /\ i.op \in Ops /\ i.expected.owner \in Computers
      /\ i.profile \in Computers
  BY <1>1 DEF Intents, Roots
<1>3. m.transfer \in Transfers /\ m.transfer.to = i.profile
  BY <1>2, MarkedRoot
<1>4. m.transfer.op = i.op
  BY DEF Marked
<1> HIDE DEF m
<1> QED
  BY <1>1, <1>3, <1>4, NoneIsNoData DEF OwnedBy

\* The write of a root.
LEMMA CopyNatives ==
    ASSUME IInv, Saves, Kopia, Natives, NEW c \in Computers, Place(c), CopyRoot(c)
    PROVE  Natives'
<1> USE DEF stored, saved
<1>1. /\ TypeOK /\ Named(c) /\ Step(c) /\ Doing(c) = pub[c].after
      /\ UNCHANGED <<prof, native, rec, intent>>
  BY DEF IInv, Saves, Step, RequestStep, CopyRoot, Doing, Publishing
<1>2. CASE Stop(c) /\ UNCHANGED root
  <2>1. Quiet(c)
    BY <1>1, <1>2, Moved DEF Quiet, Past
  <2> QED
    BY <1>1, <1>2, <2>1, NeededKept, QuietStep
<1>3. CASE /\ root = pub[c].expected /\ root' = pub[c].data /\ Goto(c, "readback")
           /\ UNCHANGED aligned
  <2> DEFINE after == pub[c].after
  <2>1. Doing(c)' = Doing(c) /\ Quiet(c)
    BY <1>1, <1>3 DEF Goto, TypeOK, Doing, Publishing, Quiet
  <2>2. WritesKnown(c) /\ pc[c] \in Publishing
    BY DEF Place, CopyRoot, Publishing
  <2> SUFFICES ASSUME NEW p \in Computers, Needed(p)' PROVE Needed(p)
    BY <1>1, <2>1, QuietStep
  <2>3. CASE root.transfer = None /\ root'.transfer = None /\ root'.owner = root.owner
    BY <2>3 DEF Needed
  \* A takeover puts its marker on the root: nobody has set the native owner for it.
  <2>4. CASE /\ rec[c] # None /\ c \notin aligned
             /\ root'.transfer # None /\ root'.transfer.op = rec[c].op
    <3>1. PICK d \in Computers : AlignedFor(d)'
      BY <2>4 DEF Needed
    <3>2. d = c
      BY <1>1, <2>4, <3>1 DEF AlignedFor, Saves, Named
    <3> QED
      BY <1>1, <1>3, <2>4, <3>1, <3>2 DEF AlignedFor, Named
  \* Its next phase.
  <2>5. CASE /\ root.transfer # None /\ root'.transfer # None
             /\ root'.transfer.op = root.transfer.op /\ root'.transfer.to = root.transfer.to
    BY <1>1, <2>1, <2>5, AlignedForKept DEF Needed
  \* Its end, or that of a connection.
  <2>6. CASE /\ root.transfer # None /\ root'.transfer = None
             /\ root'.owner = root.transfer.to /\ AlignedFor(c)
    BY <2>6 DEF Needed
  \* A connection puts its marker on the root.
  <2>7. CASE after = "connectAlign" /\ intent[c] # None /\ root' = intent[c].marker
    <3>1. root'.transfer # None /\ root'.transfer.op = intent[c].op
      BY <2>7, IntentRoots
    <3>2. PICK d \in Computers : AlignedFor(d)'
      BY <3>1 DEF Needed
    <3>3. d = c
      BY <1>1, <2>7, <3>1, <3>2 DEF AlignedFor, Saves, Named
    <3>4. rec[c] = None /\ Doing(c)' \notin Past
      BY <1>1, <2>1, <2>7 DEF Named, Past
    <3> QED
      BY <1>1, <3>2, <3>3, <3>4 DEF AlignedFor
  <2>8. CASE /\ after = "confirm" /\ intent[c] # None /\ intent[c].own
             /\ root' = intent[c].final /\ root = intent[c].marker
    <3>1. AlignedFor(c)
      BY <1>1, <2>8, IntentRoots DEF AlignedFor, Past
    <3> QED
      BY <2>6, <2>8, <3>1, IntentRoots
  <2>9. CASE /\ rec[c] # None /\ c \in aligned /\ root.transfer # None
             /\ root.transfer.op = rec[c].op /\ root'.transfer = None
             /\ root'.owner = root.transfer.to
    BY <2>6, <2>9 DEF AlignedFor
  <2> QED
    BY <1>3, <2>2, <2>3, <2>4, <2>5, <2>7, <2>8, <2>9 DEF WritesKnown
<1> QED
  BY <1>2, <1>3 DEF CopyRoot

\* The native owner is set for a marker, or for a root that names this computer.
LEMMA AlignNatives ==
    ASSUME IInv, Saves, Kopia, Natives, NEW c \in Computers, Place(c), Align(c) \/ AlignOwned(c)
    PROVE  Natives'
<1> USE DEF stored, saved
<1>1. /\ TypeOK /\ Sound(c) /\ Step(c) /\ UNCHANGED <<root, prof, intent>>
  BY DEF IInv, Step, RequestStep, Align, AlignOwned
<1>2. CASE Stop(c) /\ UNCHANGED native
  <2>1. Quiet(c)
    BY <1>1, <1>2, Moved DEF Quiet, Past
  <2> QED
    BY <1>1, <1>2, <2>1, NeededKept, QuietStep
<1>3. CASE /\ native' = c /\ Attached(c)
           /\ IF root.transfer = None THEN root.owner = Own(c) ELSE root.transfer.to = Own(c)
  <2>1. Known(Own(c)) /\ prof[Own(c)].client = c
    BY <1>1, <1>3 DEF Attached, Sound, SavedSound, Own
  <2> QED
    BY <1>1, <1>3, <2>1, NativesSet DEF Needed, Known
<1>4. CASE Align(c) /\ ~(Stop(c) /\ UNCHANGED native)
  <2>1. rec[c].to = Own(c)
    BY <1>1, <1>4 DEF Align, Doing, Publishing, Sound, TakeoverSound, TakeoverSteps
  <2> QED
    BY <1>3, <1>4, <2>1 DEF Align, MarkerAllowed
<1>5. CASE AlignOwned(c)
  BY <1>2, <1>3, <1>5 DEF AlignOwned
<1> QED
  BY <1>2, <1>4, <1>5

\* The native owner is set or verified by a connection.
LEMMA ConnectionNatives ==
    ASSUME IInv, Saves, Kopia, Natives, NEW c \in Computers, Place(c), AlignConnection(c)
    PROVE  Natives'
<1> USE DEF stored, saved
<1> DEFINE i == intent[c]
           aligns == i.own \/ (i.kind = "takeover" /\ i.expected.owner = i.profile)
<1>1. /\ TypeOK /\ Sound(c) /\ Step(c) /\ Doing(c) = "connectAlign" /\ Seen(c) = view[c]
      /\ UNCHANGED <<root, prof, rec>>
  BY DEF IInv, Step, RequestStep, AlignConnection, Doing, Seen, Publishing
<1>2. i \in Intents /\ i # None /\ i.profile \in Computers /\ Known(i.profile)
  BY <1>1, NoneIsNoData DEF Sound, ConnectSound, ConnectSteps, Intents
<1>3. Kept(c) /\ \A d \in Computers \ {c} : intent'[d] = intent[d]
  <2>1. Begun(c) \in {"publication_started", "attachment_pending"} /\ Mark(c, Begun(c))
    BY <1>2 DEF Begun, Intents, AlignConnection
  <2> QED
    BY <1>1, <1>2, <2>1, MarkedKept, OnlyOne DEF Only
<1>4. CASE Stop(c) /\ UNCHANGED native
  <2>1. Quiet(c)
    BY <1>1, <1>4, Moved DEF Quiet, Past
  <2> QED
    BY <1>1, <1>4, <2>1, NeededKept, QuietStep
<1>5. CASE native' = c /\ aligns /\ MayAlign(c)
  <2>1. prof[i.profile].client = c
    BY <1>2, <1>5 DEF MayAlign, Saves, Named
  <2>2. IF root.transfer = None THEN root.owner = i.profile ELSE root.transfer.to = i.profile
    <3>1. CASE i.own
      BY <1>1, <1>2, <1>5, <3>1, IntentRoots DEF MayAlign, Place, ViewKnown
    <3>2. CASE ~i.own
      BY <1>2, <1>5, <3>2, IntentRoots DEF MayAlign
    <3> QED
      BY <3>1, <3>2
  <2>3. \A p \in Computers : Needed(p)' => Known(p) /\ prof[p].client = c
    BY <1>1, <1>2, <2>1, <2>2 DEF Needed
  <2> QED
    BY <1>1, <1>3, <1>5, <2>3, NativesSet
<1>6. CASE /\ ~aligns /\ native = i.native /\ UNCHANGED <<native, aligned>>
           /\ Goto(c, "connectFinal")
  <2>1. \A d \in Computers : AlignedFor(d)' => AlignedFor(d)
    <3>1. ASSUME NEW d \in Computers \ {c}, AlignedFor(d)' PROVE AlignedFor(d)
      <4>1. intent'[d] = intent[d] /\ Doing(d)' = Doing(d)
        BY <1>1, <1>3, OnlyOne DEF Only, Doing
      <4> QED
        BY <1>1, <1>6, <3>1, <4>1 DEF AlignedFor
    <3>2. AlignedFor(c)' => AlignedFor(c)
      BY <1>1, <1>3, <1>6 DEF AlignedFor, Kept
    <3> QED
      BY <3>1, <3>2
  <2>2. \A p \in Computers : Needed(p)' => Needed(p)
    BY <1>1, <2>1 DEF Needed
  <2>3. ASSUME NEW d \in Computers, NEW p \in Computers, Awaits(d, p), Needed(p)
        PROVE  Awaits(d, p)'
    <3>1. d # c
      BY <1>2, <1>6, <2>3 DEF Awaits, Verifies, Natives, RefusesKnown
    <3> QED
      BY <1>1, <2>3, <3>1, AwaitsKept
  <2> QED
    BY <1>1, <1>6, <2>2, <2>3, VerifiesKept, NativesKept
<1> QED
  BY <1>4, <1>5, <1>6 DEF AlignConnection

\* A profile is created, or changes hands.
LEMMA ProfileNatives ==
    ASSUME IInv, Saves, Kopia, Natives, NEW c \in Computers, Place(c), PublishProfile(c)
    PROVE  Natives'
<1> USE DEF stored, saved
<1>1. /\ TypeOK /\ Named(c) /\ Step(c) /\ Doing(c) = "profile"
      /\ UNCHANGED <<root, native, rec>>
  BY DEF IInv, Saves, Step, RequestStep, PublishProfile, Doing, Publishing
<1>2. Quiet(c) /\ (~UNCHANGED prof => Doing(c)' \notin Past)
  <2>1. CASE Stop(c)
    BY <1>1, <2>1, Moved DEF Quiet, Past
  <2>2. CASE Goto(c, "transition") /\ UNCHANGED aligned
    BY <1>1, <2>2, Moved, StepNames DEF Quiet, Past
  <2> QED
    BY <2>1, <2>2 DEF PublishProfile
<1>3. \A p \in Computers : Needed(p)' => Needed(p)
  BY <1>1, <1>2, NeededKept
<1>4. CASE UNCHANGED prof
  BY <1>1, <1>2, <1>3, <1>4, QuietStep
<1>5. CASE prof' # prof
  <2> DEFINE i == intent[c]
             x == i.profile
  <2>1. /\ i \in Intents /\ i # None /\ Kept(c) /\ Takes(c) /\ x \in Computers
        /\ i.goal \in Attachments /\ i.goal.client = c /\ prof'[x] = i.goal
        /\ \A p \in Computers \ {x} : prof'[p] = prof[p]
        /\ intent'[c].profile = x /\ intent'[c].goal = i.goal /\ intent'[c].kind = i.kind
        /\ intent'[c] # None
    BY <1>1, <1>5, ProfilesMove, NoneIsNoData DEF Kept
  \* It is a takeover if somebody knows the profile.
  <2>2. Known(x) => i.kind = "takeover" /\ i.goal.gen = prof[x].gen + 1
    <3>1. Known(x) => prof[x] # None /\ i.reviewed = prof[x]
      BY <2>1, NoneIsNoData DEF Known, Takes
    <3> QED
      BY <2>1, <3>1 DEF Takes, Intents, Kinds, Saves, ReviewKnown
  <2>3. ASSUME NEW d \in Computers \ {c}
        PROVE  intent'[d] = intent[d] /\ Doing(d)' = Doing(d)
    BY <1>1, OnlyOne DEF Only, Doing
  <2>4. ASSUME NEW p \in Computers, Needed(p)'
        PROVE  Known(p)' /\ (native' = prof'[p].client \/ \E d \in Computers : Awaits(d, p)')
    <3>1. Known(p) /\ (native = prof[p].client \/ \E d \in Computers : Awaits(d, p))
      BY <1>3, <2>4 DEF Natives, NativeKnown
    <3>2. CASE p = x
      <4>1. Awaits(c, x)'
        BY <1>2, <1>5, <2>1, <2>2, <3>1, <3>2 DEF Awaits
      <4> QED
        BY <2>1, <3>2, <4>1 DEF Known
    <3>3. CASE p # x
      <4>1. prof'[p] = prof[p]
        BY <2>1, <3>3
      <4>2. ASSUME NEW d \in Computers, Awaits(d, p) PROVE Awaits(d, p)'
        <5>1. d # c
          BY <3>3, <4>2 DEF Awaits
        <5> QED
          BY <2>3, <4>1, <4>2, <5>1 DEF Awaits
      <4> QED
        BY <1>1, <3>1, <4>1, <4>2 DEF Known
    <3> QED
      BY <3>2, <3>3
  <2>5. ASSUME NEW d \in Computers PROVE RefusesKnown(d)'
    <3> DEFINE j == intent[d]
               y == j.profile
    <3> SUFFICES ASSUME Verifies(d)', Needed(intent[d].profile)',
                        (prof[intent[d].profile] = intent[d].reviewed
                            \/ prof[intent[d].profile] = intent[d].goal)'
                 PROVE  (native # intent[d].native)'
      BY DEF RefusesKnown
    <3>1. /\ intent'[d] = j \/ (d = c /\ Kept(c))
          /\ intent'[d].profile = y /\ intent'[d].native = j.native
          /\ intent'[d].reviewed = j.reviewed /\ intent'[d].goal = j.goal
      BY <2>1, <2>3 DEF Kept
    <3>2. Verifies(d) /\ y \in Computers /\ RefusesKnown(d) /\ Needed(y)
      <4>1. Verifies(d)
        BY <3>1, <2>1 DEF Verifies, Kept
      <4>2. y \in Computers
        BY <1>1, <4>1 DEF Verifies, TypeOK, Intents
      <4> QED
        BY <1>3, <3>1, <4>1, <4>2 DEF Natives
    <3>3. CASE d = c
      BY <1>1, <2>1, <3>1, <3>2, <3>3 DEF RefusesKnown, Takes
    <3>4. CASE y # x
      BY <1>1, <2>1, <3>1, <3>2, <3>4 DEF RefusesKnown
    <3>5. CASE d # c /\ y = x
      <4>1. i.goal = j.reviewed \/ i.goal = j.goal
        BY <2>1, <3>1, <3>5
      <4>2. Named(d) /\ ReviewKnown(d) /\ j # None /\ j.kind = "takeover"
        BY <3>2 DEF Saves, Verifies
      <4>3. i.goal = j.reviewed
        BY <2>1, <3>5, <4>1, <4>2 DEF Named
      <4>4. Known(x) /\ prof[x].gen >= i.goal.gen
        BY <3>5, <4>2, <4>3 DEF ReviewKnown
      <4>5. prof[x].gen \in Nat /\ i.goal.gen = prof[x].gen + 1
        BY <2>2, <4>4 DEF Known, Attachments
      <4> QED
        BY <4>4, <4>5
    <3> QED
      BY <3>3, <3>4, <3>5
  <2> QED
    BY <2>4, <2>5 DEF Natives, NativeKnown
<1> QED
  BY <1>4, <1>5

\* Every step.
LEMMA NativesStep ==
    ASSUME IInv, Saves, Kopia, Natives, NEW c \in Computers, Place(c), Step(c)
    PROVE  Natives'
<1> USE DEF stored, saved
<1>1. CASE CopyRoot(c) \/ Align(c) \/ AlignOwned(c) \/ AlignConnection(c) \/ PublishProfile(c)
  BY <1>1, CopyNatives, AlignNatives, ConnectionNatives, ProfileNatives
<1>2. CASE ~(CopyRoot(c) \/ Align(c) \/ AlignOwned(c) \/ AlignConnection(c) \/ PublishProfile(c))
  <2>1. UNCHANGED <<root, prof, native>> /\ (aligned' = aligned \/ Stop(c))
    <3>1. CASE \/ Put(c) \/ ReadBack(c) \/ PublishApplied(c) \/ Advance(c) \/ Reread(c)
               \/ PublishOwned(c) \/ Published(c) \/ Complete(c)
      BY <3>1 DEF Put, ReadBack, PublishApplied, Advance, Reread, PublishOwned, Published, Complete
    <3>2. CASE Transition(c) \/ PublishFinal(c) \/ Confirm(c) \/ Attach(c)
      BY <3>2 DEF Transition, PublishFinal, Confirm, Attach
    <3>3. CASE \/ BeginTakeover(c) \/ ResumeTakeover(c) \/ SaveCare(c) \/ ResumeConnection(c)
               \/ CancelConnection(c) \/ Remove(c) \/ Cut(c)
               \/ \E kind \in Kinds, p \in Computers, own \in BOOLEAN : Connect(c, kind, p, own)
      BY <3>3 DEF BeginTakeover, ResumeTakeover, SaveCare, ResumeConnection, CancelConnection,
         Remove, Cut, Connect
    <3> QED
      BY <1>2, <3>1, <3>2, <3>3 DEF Step, RequestStep
  <2>2. Quiet(c)
    BY <1>2, <2>1, PastKept, Moved DEF Quiet, IInv
  <2> QED
    BY <2>1, <2>2, NeededKept, QuietStep
<1> QED
  BY <1>1, <1>2

-----------------------------------------------------------------------------

LEMMA InitNInv == Init => NInv
<1> SUFFICES ASSUME Init PROVE NInv
  OBVIOUS
<1> USE OwnershipConstants DEF Init
<1>1. ASSUME NEW c \in Computers PROVE Named(c) /\ HoldersKnown(c) /\ ReviewKnown(c)
  BY DEF Named, HoldersKnown, ReviewKnown, Verifies, AttachedTo, Own
<1>2. ASSUME NEW c \in Computers PROVE Place(c)
  BY DEF Place, AlignedKnown, WritesKnown, ViewKnown, Doing, Publishing
<1>3. Natives
  <2>1. root.transfer = None /\ root.owner = FirstOwner /\ native = FirstOwner
    OBVIOUS
  <2>2. prof[FirstOwner] \in Attachments /\ prof[FirstOwner].client = FirstOwner
    BY DEF Attachments
  <2> QED
    BY <2>1, <2>2 DEF Natives, NativeKnown, RefusesKnown, Verifies, Needed, Known
<1> QED
  BY <1>1, <1>2, <1>3 DEF NInv, Saves

LEMMA StepNInv == IInv /\ NInv /\ [Next]_vars => NInv'
<1> SUFFICES ASSUME IInv, NInv, [Next]_vars PROVE NInv'
  OBVIOUS
<1>1. CASE Next
  <2>1. PICK c \in Computers : Step(c)
    BY <1>1 DEF Next, Step
  <2>2. Saves'
    BY <2>1, SavesKept DEF NInv
  <2>3. \A d \in Computers : Place(d)'
    BY <2>1, PlacesKept DEF NInv
  <2>4. Kopia => Natives'
    BY <2>1, NativesStep DEF NInv
  <2> QED
    BY <2>2, <2>3, <2>4 DEF NInv
<1>2. CASE UNCHANGED vars
  <2>1. \A c \in Computers : /\ Named(c)' <=> Named(c)
                             /\ HoldersKnown(c)' <=> HoldersKnown(c)
                             /\ ReviewKnown(c)' <=> ReviewKnown(c)
    BY <1>2 DEF vars, stored, saved, Named, HoldersKnown, ReviewKnown, Verifies, AttachedTo,
       Own, Known
  <2>2. \A c \in Computers : Place(c)' <=> Place(c)
    BY <1>2 DEF vars, stored, saved, Place, AlignedKnown, WritesKnown, ViewKnown, Doing, Seen
  <2>3. Natives' <=> Natives
    BY <1>2 DEF vars, stored, saved, Natives, NativeKnown, RefusesKnown, Verifies, Needed,
       AlignedFor, Awaits, Doing, Known
  <2> QED
    BY <2>1, <2>2, <2>3 DEF NInv, Saves
<1> QED
  BY <1>1, <1>2 DEF Next

LEMMA NInvHolds == Spec => []NInv
  BY Inductive, InitNInv, StepNInv, PTL DEF Spec

\* With no ownership on the move, the native owner is the computer that holds the owner's
\* profile, whatever was interrupted and by whomever the profile or the ownership was
\* taken, except while a connection that took the owner's profile is still pending.
THEOREM NativeFollows == Spec => []NativeFollowsRoot
<1>1. IInv /\ NInv => NativeFollowsRoot
  <2> SUFFICES ASSUME IInv, NInv, Kopia, root.transfer = None
               PROVE  \/ native = prof[root.owner].client
                      \/ \E c \in Computers : Awaits(c, root.owner)
    BY DEF NativeFollowsRoot, Awaits
  <2>1. root.owner \in Computers /\ Needed(root.owner)
    BY DEF IInv, TypeOK, Roots, Needed
  <2> QED
    BY <2>1 DEF NInv, Natives, NativeKnown
<1> QED
  BY <1>1, Inductive, NInvHolds, PTL
=============================================================================
