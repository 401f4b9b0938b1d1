--------------------------- MODULE VaultOwnership ---------------------------
(* One vault used by several computers. The vault's storage holds a protected *)
(* root, which names the profile that owns the vault, and one profile object  *)
(* per computer, which says which installation it is attached to. A computer  *)
(* takes ownership over (api/vault_ownership.go) or connects to the vault,    *)
(* taking a profile or the ownership with it (api/repository_recovery.go).    *)
(* Both go through the publication of vaultprofile/store.go and through a row *)
(* in the computer's own database from which an interrupted request resumes.  *)
(*                                                                            *)
(* The computers share nothing but the storage. A request may be cut between  *)
(* any two of its steps: a network failure, a closed page, a refused database *)
(* write, the end of the process. What it wrote stays.                        *)
(*                                                                            *)
(* A publication checks the object it replaces and then copies; the code      *)
(* accepts that another computer may write in between, and the model does     *)
(* not: a last check and its write are one step. So are a native command and  *)
(* the admission check right before it. A connection that also changes the    *)
(* schedules of a vault its computer owns publishes them with the root, under *)
(* the same owner, as SaveCare does after it; it changes none here.           *)
EXTENDS Naturals, FiniteSets

CONSTANTS
    Computers,     \* installations; each has a profile of the same name
    Members,       \* those attached to the vault at first
    FirstOwner,    \* whose profile owns the vault at first
    Removers,      \* computers whose user removes the vault from the application
    Kopia,         \* whether the vault's engine has a maintenance owner of its own
    MaxOps,        \* how many takeovers and connections are begun
    MaxCuts,       \* how many requests are cut
    None

ASSUME OwnershipConstants ==
    /\ Members \subseteq Computers /\ FirstOwner \in Members /\ Removers \subseteq Computers
    /\ Kopia \in BOOLEAN /\ MaxOps \in Nat /\ MaxCuts \in Nat
    /\ None \notin Computers

VARIABLES
    root,       \* the canonical protected root
    prof,       \* the canonical profile objects
    pending,    \* uploads whose name a later attempt may find again
    native,     \* the maintenance owner Kopia knows
    att,        \* per computer: the saved vault's profile and generation
    rec,        \* per computer: the unfinished takeover of its database
    intent,     \* per computer: the pending connection of its database
    pc,         \* per computer: the next step of the request it serves
    view,       \* per computer: the root this request read or published last
    pub,        \* per computer: the publication of the root in progress
    aligned,    \* computers whose request has set the native owner
    begun, cuts

stored == <<root, prof, pending, native>>
saved == <<att, rec, intent>>
vars == <<stored, saved, pc, view, pub, aligned, begun, cuts>>

Ops == [by : Computers, n : 1..MaxOps]
Phases == {"reviewed", "native_owner_applied"}
Transfers == [op : Ops, from : Computers, to : Computers, phase : Phases]
Roots == [rev : Nat, owner : Computers, transfer : Transfers \cup {None}]
Attachments == [client : Computers, gen : Nat]

Kinds == {"join", "reconnect", "takeover"}
Steps == {"idle", "put", "copy", "readback",
          "align", "phase", "advance", "reread", "final", "published", "complete", "care",
          "profile", "transition", "connectAlign", "connectFinal", "confirm", "attach"}

\* A takeover as a computer saves it, a saved vault, and a pending connection.
Records == [op : Ops, from : Computers, to : Computers, state : Phases \cup {"root_published"}]
Saved == [profile : Computers, gen : Nat]
Intents ==
    [op : Ops, kind : Kinds, profile : Computers, own : BOOLEAN,
     state : {"prepared", "publication_started", "attachment_pending"},
     reviewed : Attachments \cup {None}, goal : Attachments,
     expected : Roots, marker : Roots, final : Roots, native : Computers]

\* What is absent is none of these.
ASSUME NoneIsNoData ==
    None \notin Transfers \cup Attachments \cup Records \cup Saved \cup Intents

----------------------------------------------------------------------------
(* What a request reads.                                                     *)

\* The saved vault is still the one its profile names.
Attached(c) ==
    /\ att[c] # None
    /\ prof[att[c].profile] = [client |-> c, gen |-> att[c].gen]

Own(c) == att[c].profile

\* The marker on the root, if any, is that of this computer's saved takeover.
MarkerAllowed(c) ==
    root.transfer # None =>
       /\ rec[c] # None
       /\ root.transfer.op = rec[c].op /\ root.transfer.from = rec[c].from
       /\ root.transfer.to = rec[c].to /\ root.owner = rec[c].from
       /\ \/ root.transfer.phase = rec[c].state
          \/ rec[c].state = "reviewed" /\ root.transfer.phase = "native_owner_applied"

\* Whether the page offers to finish the takeover.
Resumable(c) ==
    /\ rec[c] # None /\ Attached(c) /\ rec[c].to = Own(c)
    /\ IF root.transfer # None THEN root.transfer.op = rec[c].op
       ELSE \/ root.owner = rec[c].to
            \/ root.owner = rec[c].from /\ rec[c].state = "reviewed"

Marked(r, op, from, to) ==
    [rev |-> r.rev + 1, owner |-> r.owner,
     transfer |-> [op |-> op, from |-> from, to |-> to, phase |-> "reviewed"]]
Applied(r) ==
    [rev |-> r.rev + 1, owner |-> r.owner,
     transfer |-> [r.transfer EXCEPT !.phase = "native_owner_applied"]]
OwnedBy(r, p) == [rev |-> r.rev + 1, owner |-> p, transfer |-> None]

----------------------------------------------------------------------------
(* Publication of the root.                                                  *)

\* Mutant: one name for all the uploads of a takeover.
TransferName(op) == <<op, "marker">>

\* The name of a takeover's pending upload is new each time, and never met again.
TakeoverName(op) == None
ConnectName(op, part) == <<op, part>>
Names == {<<op, part>> : op \in Ops, part \in {"marker", "final"}}
Publications == [data : Roots, expected : Roots, name : Names \cup {None}, after : Steps]

Publication(data, expected, name, after) ==
    [data |-> data, expected |-> expected, name |-> name, after |-> after]

\* Arranges a publication; what follows it is pub[c].after.
Publish(c, data, expected, name, after) ==
    /\ pc' = [pc EXCEPT ![c] = "put"]
    /\ pub' = [pub EXCEPT ![c] = Publication(data, expected, name, after)]

Goto(c, step) == pc' = [pc EXCEPT ![c] = step] /\ UNCHANGED pub
Stop(c) ==
    /\ pc' = [pc EXCEPT ![c] = "idle"]
    /\ pub' = [pub EXCEPT ![c] = None]
    /\ view' = [view EXCEPT ![c] = None]
    /\ aligned' = aligned \ {c}

\* Bytes under the name of this publication that are not its own refuse it.
Conflicting(c) ==
    /\ pub[c].name # None
    /\ pending[pub[c].name] \notin {None, pub[c].data}

\* The object must be the one the caller reviewed; then the pending upload.
Put(c) ==
    /\ pc[c] = "put"
    /\ IF root = pub[c].expected /\ ~Conflicting(c)
       THEN /\ Goto(c, "copy")
            /\ pending' = IF pub[c].name = None THEN pending
                          ELSE [pending EXCEPT ![pub[c].name] = pub[c].data]
            /\ UNCHANGED <<view, aligned>>
       ELSE IF root = pub[c].data
       THEN Goto(c, "readback") /\ UNCHANGED <<pending, view, aligned>>
       ELSE Stop(c) /\ UNCHANGED pending
    /\ UNCHANGED <<root, prof, native, saved, begun, cuts>>

\* Mutant: copied without the last check.
CopyUnchecked(c) ==
    /\ pc[c] = "copy"
    /\ root' = pub[c].data /\ Goto(c, "readback")
    /\ UNCHANGED <<prof, pending, native, view, aligned, saved, begun, cuts>>

\* Checked once more, then copied into place.
CopyRoot(c) ==
    /\ pc[c] = "copy"
    /\ IF root = pub[c].expected
       THEN root' = pub[c].data /\ Goto(c, "readback") /\ UNCHANGED <<view, aligned>>
       ELSE Stop(c) /\ UNCHANGED root
    /\ UNCHANGED <<prof, pending, native, saved, begun, cuts>>

\* The published bytes are read again; then the upload is deleted.
ReadBack(c) ==
    /\ pc[c] = "readback"
    /\ IF root = pub[c].data
       THEN /\ pc' = [pc EXCEPT ![c] = pub[c].after]
            /\ view' = [view EXCEPT ![c] = IF pub[c].after = "idle" THEN None ELSE root]
            /\ pub' = [pub EXCEPT ![c] = None]
            /\ pending' = IF pub[c].name = None THEN pending
                          ELSE [pending EXCEPT ![pub[c].name] = None]
            /\ UNCHANGED aligned
       ELSE Stop(c) /\ UNCHANGED pending
    /\ UNCHANGED <<root, prof, native, saved, begun, cuts>>

----------------------------------------------------------------------------
(* Force vault owner takeover.                                               *)

NewRecord(c) ==
    [op |-> [by |-> c, n |-> begun + 1], from |-> root.owner, to |-> Own(c), state |-> "reviewed"]

\* The first root of a takeover carries its marker.
PublishMarker(c, r) ==
    Publish(c, Marked(root, r.op, r.from, r.to), root, TakeoverName(r.op),
            IF Kopia THEN "align" ELSE "phase")

\* Where a saved takeover goes on, by its state and the marker found.
ResumeAt(c) ==
    CASE rec[c].state = "reviewed" /\ root.transfer = None -> PublishMarker(c, rec[c])
      [] rec[c].state = "reviewed" /\ root.transfer # None ->
            Goto(c, IF root.transfer.phase = "native_owner_applied" THEN "advance"
                    ELSE IF Kopia THEN "align" ELSE "phase")
      [] rec[c].state = "native_owner_applied" -> Goto(c, "reread")
      [] rec[c].state = "root_published" -> Goto(c, "complete")

\* The user takes the ownership over, for the first time or again.
BeginTakeover(c) ==
    /\ pc[c] = "idle" /\ intent[c] = None /\ rec[c] = None /\ begun < MaxOps
    /\ Attached(c) /\ MarkerAllowed(c) /\ root.owner # Own(c)
    /\ begun' = begun + 1
    /\ rec' = [rec EXCEPT ![c] = NewRecord(c)]
    /\ view' = [view EXCEPT ![c] = root]
    /\ PublishMarker(c, NewRecord(c))
    /\ UNCHANGED <<stored, att, intent, aligned, cuts>>

ResumeTakeover(c) ==
    /\ pc[c] = "idle" /\ intent[c] = None /\ rec[c] # None
    /\ Attached(c) /\ MarkerAllowed(c) /\ rec[c].to = Own(c)
    /\ \/ root.owner = Own(c) /\ Goto(c, "care")
       \/ root.owner # Own(c) /\ root.owner = rec[c].from /\ ResumeAt(c)
    /\ view' = [view EXCEPT ![c] = root]
    /\ UNCHANGED <<stored, saved, aligned, begun, cuts>>

\* Mutant: only the root is looked at before Kopia's owner is set.
AlignByRoot(c) ==
    /\ pc[c] = "align"
    /\ IF root.transfer # None /\ MarkerAllowed(c) /\ root.transfer.phase = rec[c].state
       THEN /\ native' = c
            /\ aligned' = aligned \cup {c}
            /\ Goto(c, IF rec[c].state = "reviewed" THEN "phase" ELSE "final")
            /\ UNCHANGED view
       ELSE Stop(c) /\ UNCHANGED native
    /\ UNCHANGED <<root, prof, pending, saved, begun, cuts>>

\* Kopia's owner is set after a last look at the root and at the own profile.
Align(c) ==
    /\ pc[c] = "align"
    /\ IF /\ root.transfer # None /\ MarkerAllowed(c)
          /\ root.transfer.phase = rec[c].state /\ Attached(c)
       THEN /\ native' = c
            /\ aligned' = aligned \cup {c}
            /\ Goto(c, IF rec[c].state = "reviewed" THEN "phase" ELSE "final")
            /\ UNCHANGED view
       ELSE Stop(c) /\ UNCHANGED native
    /\ UNCHANGED <<root, prof, pending, saved, begun, cuts>>

PublishApplied(c) ==
    /\ pc[c] = "phase"
    /\ Publish(c, Applied(view[c]), view[c], TakeoverName(rec[c].op), "advance")
    /\ UNCHANGED <<stored, saved, view, aligned, begun, cuts>>

Advance(c) ==
    /\ pc[c] = "advance"
    /\ rec' = [rec EXCEPT ![c].state = "native_owner_applied"]
    /\ Goto(c, "reread")
    /\ UNCHANGED <<stored, att, intent, view, aligned, begun, cuts>>

\* The root is read again before the ownership is written.
Reread(c) ==
    /\ pc[c] = "reread"
    /\ CASE MarkerAllowed(c) /\ root.owner = Own(c) /\ root.transfer = None ->
              Goto(c, "published") /\ UNCHANGED <<view, aligned>>
         [] MarkerAllowed(c) /\ root.owner = rec[c].from /\ root.transfer # None ->
              /\ Goto(c, IF Kopia /\ c \notin aligned THEN "align" ELSE "final")
              /\ view' = [view EXCEPT ![c] = root]
              /\ UNCHANGED aligned
         [] OTHER -> Stop(c)
    /\ UNCHANGED <<stored, saved, begun, cuts>>

PublishOwned(c) ==
    /\ pc[c] = "final"
    /\ Publish(c, OwnedBy(view[c], Own(c)), view[c], TakeoverName(rec[c].op), "published")
    /\ UNCHANGED <<stored, saved, view, aligned, begun, cuts>>

Published(c) ==
    /\ pc[c] = "published"
    /\ rec' = [rec EXCEPT ![c].state = "root_published"]
    /\ Goto(c, "complete")
    /\ UNCHANGED <<stored, att, intent, view, aligned, begun, cuts>>

Complete(c) ==
    /\ pc[c] = "complete"
    /\ rec' = [rec EXCEPT ![c] = None]
    /\ Stop(c)
    /\ UNCHANGED <<stored, att, intent, begun, cuts>>

\* The root names this computer already: its native owner is set once more, and its
\* record then goes through the states that are left, one write at a time.  A record
\* that is still "reviewed" would take one write more; none is met here, since the
\* record is past that state before the root that names the computer is prepared.
AlignOwned(c) ==
    /\ pc[c] = "care"
    /\ IF Kopia => root.transfer = None /\ root.owner = Own(c) /\ Attached(c)
       THEN /\ native' = IF Kopia THEN c ELSE native
            /\ Goto(c, IF rec[c].state = "root_published" THEN "complete" ELSE "published")
            /\ UNCHANGED <<view, aligned>>
       ELSE Stop(c) /\ UNCHANGED native
    /\ UNCHANGED <<root, prof, pending, saved, begun, cuts>>

\* The owner saves other schedules for the vault.
SaveCare(c) ==
    /\ pc[c] = "idle" /\ intent[c] = None /\ begun < MaxOps
    /\ Attached(c) /\ root.transfer = None /\ root.owner = Own(c)
    /\ begun' = begun + 1
    /\ Publish(c, [root EXCEPT !.rev = @ + 1], root, None, "idle")
    /\ UNCHANGED <<stored, saved, view, aligned, cuts>>

----------------------------------------------------------------------------
(* Connect an existing vault.                                                *)

AttachedTo(c) == {p \in Computers : prof[p] # None /\ prof[p].client = c}

\* What may be chosen when the vault is reviewed: a new profile, this computer's
\* own, or another computer's.
Choice(c, kind, p) ==
    CASE kind = "join" -> p = c /\ AttachedTo(c) = {} /\ prof[p] = None
      [] kind = "reconnect" -> AttachedTo(c) = {p}
      [] kind = "takeover" -> AttachedTo(c) = {} /\ prof[p] # None

Goal(c, kind, p) ==
    CASE kind = "join" -> [client |-> c, gen |-> 1]
      [] kind = "reconnect" -> prof[p]
      [] kind = "takeover" -> [client |-> c, gen |-> prof[p].gen + 1]

\* The request saves all it reviewed and every object it will publish.
Intent(c, kind, p, own) ==
    LET op == [by |-> c, n |-> begun + 1]
        marker == Marked(root, op, root.owner, p) IN
    [op |-> op, kind |-> kind, profile |-> p, own |-> own, state |-> "prepared",
     reviewed |-> prof[p], goal |-> Goal(c, kind, p),
     expected |-> root, marker |-> marker, final |-> OwnedBy(marker, p),
     native |-> IF own \/ root.owner = p THEN c ELSE prof[root.owner].client]

Connect(c, kind, p, own) ==
    /\ pc[c] = "idle" /\ att[c] = None /\ intent[c] = None /\ begun < MaxOps
    /\ root.transfer = None /\ Choice(c, kind, p) /\ (own => root.owner # p)
    /\ begun' = begun + 1
    /\ intent' = [intent EXCEPT ![c] = Intent(c, kind, p, own)]
    /\ Goto(c, "profile")
    /\ UNCHANGED <<stored, att, rec, view, aligned, cuts>>

\* The profiles scanned again on a retry still allow the saved choice.
StillChosen(c) ==
    LET p == intent[c].profile IN
    /\ AttachedTo(c) \subseteq {p}
    /\ IF prof[p] = None THEN intent[c].kind = "join"
       ELSE \/ prof[p].client = c
            \/ intent[c].kind = "takeover" /\ prof[p].client = intent[c].reviewed.client

ResumeConnection(c) ==
    /\ pc[c] = "idle" /\ intent[c] # None /\ StillChosen(c)
    /\ Goto(c, "profile")
    /\ UNCHANGED <<stored, saved, view, aligned, begun, cuts>>

\* Only a connection that was never begun can be dropped.
CancelConnection(c) ==
    /\ pc[c] = "idle" /\ intent[c] # None /\ intent[c].state = "prepared"
    /\ intent' = [intent EXCEPT ![c] = None]
    /\ UNCHANGED <<stored, att, rec, pc, view, pub, aligned, begun, cuts>>

Begun(c) == IF intent[c].state = "prepared" THEN "publication_started" ELSE intent[c].state
Mark(c, state) == intent' = [intent EXCEPT ![c].state = state]

\* A refused profile or ownership marks the connection begun as well.
PublishProfile(c) ==
    LET i == intent[c] IN
    /\ pc[c] = "profile"
    /\ CASE prof[i.profile] = i.goal ->
              Goto(c, "transition") /\ UNCHANGED <<prof, intent, view, aligned>>
         [] prof[i.profile] # i.goal /\ i.kind # "reconnect" /\ prof[i.profile] = i.reviewed ->
              /\ prof' = [prof EXCEPT ![i.profile] = i.goal]
              /\ Mark(c, Begun(c)) /\ Goto(c, "transition")
              /\ UNCHANGED <<view, aligned>>
         [] OTHER -> Stop(c) /\ Mark(c, Begun(c)) /\ UNCHANGED prof
    /\ UNCHANGED <<root, pending, native, att, rec, begun, cuts>>

\* The ownership was taken already, is being taken, or is still as reviewed.
Transition(c) ==
    LET i == intent[c] IN
    /\ pc[c] = "transition"
    /\ CASE ~i.own -> Goto(c, "connectAlign") /\ UNCHANGED <<intent, view, aligned>>
         [] i.own /\ root \in {i.final, i.marker} ->
              /\ Goto(c, "connectAlign") /\ Mark(c, Begun(c))
              /\ view' = [view EXCEPT ![c] = root]
              /\ UNCHANGED aligned
         [] i.own /\ root = i.expected ->
              /\ Publish(c, i.marker, i.expected, ConnectName(i.op, "marker"), "connectAlign")
              /\ Mark(c, Begun(c))
              /\ UNCHANGED <<view, aligned>>
         [] OTHER -> Stop(c) /\ Mark(c, Begun(c))
    /\ UNCHANGED <<stored, att, rec, begun, cuts>>

\* Kopia's owner is set by a connection that takes the ownership or the owner's
\* profile, and only verified by any other.
MayAlign(c) ==
    LET i == intent[c] IN
    /\ prof[i.profile] = i.goal
    /\ IF i.own THEN root = view[c] ELSE root = i.expected

AlignConnection(c) ==
    LET i == intent[c]
        aligns == i.own \/ (i.kind = "takeover" /\ i.expected.owner = i.profile) IN
    /\ pc[c] = "connectAlign"
    /\ IF Kopia => (IF aligns THEN MayAlign(c) ELSE native = i.native)
       THEN /\ native' = IF Kopia /\ aligns THEN c ELSE native
            /\ Goto(c, "connectFinal") /\ UNCHANGED <<view, aligned>>
       ELSE Stop(c) /\ UNCHANGED native
    /\ IF Kopia THEN Mark(c, Begun(c)) ELSE UNCHANGED intent
    /\ UNCHANGED <<root, prof, pending, att, rec, begun, cuts>>

PublishFinal(c) ==
    LET i == intent[c] IN
    /\ pc[c] = "connectFinal"
    /\ IF i.own /\ view[c] # i.final /\ i.state # "attachment_pending"
       THEN Publish(c, i.final, i.marker, ConnectName(i.op, "final"), "confirm")
       ELSE Goto(c, "confirm")
    /\ UNCHANGED <<stored, saved, view, aligned, begun, cuts>>

\* The profile is read a last time before the attachment is saved.
Confirm(c) ==
    LET i == intent[c] IN
    /\ pc[c] = "confirm"
    /\ IF prof[i.profile] = i.goal
       THEN /\ Goto(c, "attach") /\ UNCHANGED <<view, aligned>>
            /\ IF i.state = "prepared" THEN UNCHANGED intent ELSE Mark(c, "attachment_pending")
       ELSE Stop(c) /\ UNCHANGED intent
    /\ UNCHANGED <<stored, att, rec, begun, cuts>>

\* Mutant: what is saved names the computer and not the profile.
AttachClient(c) ==
    /\ pc[c] = "attach"
    /\ att' = [att EXCEPT ![c] = intent[c].goal]
    /\ intent' = [intent EXCEPT ![c] = None]
    /\ Stop(c)
    /\ UNCHANGED <<stored, rec, begun, cuts>>

\* The connection becomes a saved vault.
Attach(c) ==
    /\ pc[c] = "attach"
    /\ att' = [att EXCEPT ![c] = [profile |-> intent[c].profile, gen |-> intent[c].goal.gen]]
    /\ intent' = [intent EXCEPT ![c] = None]
    /\ Stop(c)
    /\ UNCHANGED <<stored, rec, begun, cuts>>

----------------------------------------------------------------------------
\* The vault is removed from a computer: its rows go, the storage is left as it is.
Remove(c) ==
    /\ c \in Removers /\ pc[c] = "idle" /\ att[c] # None
    /\ att' = [att EXCEPT ![c] = None]
    /\ rec' = [rec EXCEPT ![c] = None]
    /\ UNCHANGED <<stored, intent, pc, view, pub, aligned, begun, cuts>>

\* A request ends where it is.
Cut(c) ==
    /\ pc[c] # "idle" /\ cuts < MaxCuts
    /\ cuts' = cuts + 1
    /\ Stop(c)
    /\ UNCHANGED <<stored, saved, begun>>

RequestStep(c) ==
    \/ Put(c) \/ CopyRoot(c) \/ ReadBack(c)
    \/ Align(c) \/ PublishApplied(c) \/ Advance(c) \/ Reread(c) \/ PublishOwned(c)
    \/ Published(c) \/ Complete(c) \/ AlignOwned(c)
    \/ PublishProfile(c) \/ Transition(c) \/ AlignConnection(c) \/ PublishFinal(c)
    \/ Confirm(c) \/ Attach(c)

Next ==
    \E c \in Computers :
        \/ RequestStep(c)
        \/ BeginTakeover(c) \/ ResumeTakeover(c) \/ SaveCare(c)
        \/ \E kind \in Kinds, p \in Computers, own \in BOOLEAN : Connect(c, kind, p, own)
        \/ ResumeConnection(c) \/ CancelConnection(c)
        \/ Remove(c) \/ Cut(c)

Init ==
    /\ root = [rev |-> 1, owner |-> FirstOwner, transfer |-> None]
    /\ prof = [p \in Computers |-> IF p \in Members THEN [client |-> p, gen |-> 1] ELSE None]
    /\ pending = [n \in Names |-> None]
    /\ native = FirstOwner
    /\ att = [c \in Computers |-> IF c \in Members THEN [profile |-> c, gen |-> 1] ELSE None]
    /\ rec = [c \in Computers |-> None] /\ intent = [c \in Computers |-> None]
    /\ pc = [c \in Computers |-> "idle"]
    /\ view = [c \in Computers |-> None] /\ pub = [c \in Computers |-> None]
    /\ aligned = {} /\ begun = 0 /\ cuts = 0

Spec == Init /\ [][Next]_vars

\* A request runs on; a user who is offered to finish a takeover or to retry a
\* pending connection does so in the end.
FairSpec ==
    /\ Spec
    /\ \A c \in Computers : WF_vars(RequestStep(c))
                          /\ WF_vars(ResumeTakeover(c)) /\ WF_vars(ResumeConnection(c))

----------------------------------------------------------------------------

TypeOK ==
    /\ root \in Roots /\ native \in Computers
    /\ prof \in [Computers -> Attachments \cup {None}]
    /\ pending \in [Names -> Roots \cup {None}]
    /\ att \in [Computers -> Saved \cup {None}]
    /\ rec \in [Computers -> Records \cup {None}]
    /\ intent \in [Computers -> Intents \cup {None}]
    /\ pc \in [Computers -> Steps]
    /\ view \in [Computers -> Roots \cup {None}]
    /\ pub \in [Computers -> Publications \cup {None}]
    /\ aligned \subseteq Computers /\ begun \in 0..MaxOps /\ cuts \in 0..MaxCuts

\* A root may be written over another: a marker is replaced by nothing but its own
\* next phase or its completion, and the ownership moves by nothing else.
Follows(new, old) ==
    /\ new.rev = old.rev + 1
    /\ IF old.transfer = None THEN new.owner = old.owner
       ELSE \/ new = OwnedBy(old, old.transfer.to)
            \/ new = Applied(old) /\ old.transfer.phase = "reviewed"

\* Whoever publishes, in whatever order, the root goes one revision at a time and the
\* ownership moves only to the profile its marker names: no write of one computer, made
\* from a root it read earlier, undoes or overtakes that of another.
RootMovesInOrder == [][root' # root => Follows(root', root)]_vars

\* With no ownership on the move, Kopia runs maintenance on the computer that holds
\* the owner's profile, also after a request was cut anywhere and another computer
\* took the profile or the ownership; the one exception is a computer that has taken
\* the owner's profile over and is still connecting with it.
NativeFollowsRoot ==
    Kopia /\ root.transfer = None =>
        \/ native = prof[root.owner].client
        \/ \E c \in Computers :
              /\ intent[c] # None /\ intent[c].kind = "takeover"
              /\ intent[c].profile = root.owner /\ prof[root.owner] = intent[c].goal

\* A pending connection whose objects are as it reviewed or published them.
Finishable(c) ==
    /\ intent[c] # None
    /\ LET i == intent[c]
           takesOwners == i.kind = "takeover" /\ i.expected.owner = i.profile IN
        /\ AttachedTo(c) \subseteq {i.profile} /\ prof[i.profile] \in {i.reviewed, i.goal}
        /\ i.own => root \in {i.expected, i.marker, i.final}
        /\ Kopia /\ ~i.own => IF takesOwners THEN root = i.expected ELSE native = i.native

\* A takeover the page offers to finish, and a connection that can still finish, end
\* when the user keeps trying, wherever earlier attempts were cut: no upload, marker or
\* saved state an attempt leaves behind stands in the way of the next one.
StartedEnds ==
    \A c \in Computers :
        /\ Resumable(c) ~> ~Resumable(c)
        /\ Finishable(c) ~> ~Finishable(c)

\* The computer that started a takeover can finish it. The code does NOT have this
\* property, because the vault may be removed there: no run checks it (README,
\* "What the code does not do").
MarkerHasFinisher ==
    root.transfer # None =>
        \E c \in Computers :
            \/ rec[c] # None /\ rec[c].op = root.transfer.op /\ Attached(c)
            \/ intent[c] # None /\ intent[c].op = root.transfer.op
=============================================================================
