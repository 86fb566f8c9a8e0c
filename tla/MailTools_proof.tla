--------------------------- MODULE MailTools_proof ---------------------------
(***************************************************************************)
(* Proofs about the write tools: what a tool answers is what Stalwart did, *)
(* a refusal sent nothing, an emptied mailbox was emptied, a sent copy is  *)
(* filed and only an expired credential leaves a change without a note,    *)
(* for any number of calls, messages and mailboxes.                        *)
(***************************************************************************)
EXTENDS MailTools, FiniteSetTheorems, TLAPS

Records == MailIds \cup {Submission(c) : c \in Calls}
                   \cup {Blob(c) : c \in Calls} \cup {Object(c) : c \in Calls}

Call ==
    [pc: {"idle", "begun", "listed", "ready", "uploaded", "half", "filing",
          "replied", "answered"},
     req: Requests \cup {None}, to: Boxes \cup {None}, sent: Boxes \cup {None},
     queried: SUBSET MailIds, reply: SUBSET Records, total: Nat,
     kind: Kinds \cup {None}, count: Nat, held: SUBSET MailIds, audited: BOOLEAN]

Notes == [at: Boxes, pc: {"spawned", "written", "dropped"}, outcome: {"ok", "error"}]

\* The mail and mailbox tables are functions on their ids.
Typed ==
    /\ mail = [i \in MailIds |-> mail[i]]
    /\ box = [b \in Boxes |-> box[b]]
    /\ registry \in Boxes \cup {None}
    /\ call \in [Calls -> Call]
    /\ note \in [Calls -> Notes \cup {None}]
    /\ done \in [Calls -> SUBSET Records]

-----------------------------------------------------------------------------
(* What a call knows of the records `W` Stalwart changed for it.           *)

\* The tools whose response lists one record or none.
OneRecord == {"update_draft", "save_draft", "rename_mailbox", "delete_mailbox",
              "subscribe_mailbox", "unsubscribe_mailbox"} \cup ObjectTools

\* An emptying changed messages only, and counts the batches it has read.
EmptyingSoFar(c, k, W) ==
    /\ W \subseteq MailIds
    /\ k.pc = "half" => k.reply = {}
    /\ k.pc = "replied" => k.reply \subseteq k.queried
    /\ Cardinality(W) = k.total + (IF k.pc = "replied" THEN Cardinality(k.reply) ELSE 0)

\* Any other tool knows from its responses what was changed.
KnownSoFar(c, k, W) ==
    /\ k.pc \in {"begun", "listed", "ready"} => W = {} /\ k.reply = {}
    /\ k.pc = "uploaded" => k.req.tool \in Attaching /\ W = {Blob(c)} /\ k.reply = W
    /\ k.pc = "half" => k.req.tool \in Sending /\ W \subseteq {Draft(c), Blob(c)} /\ k.reply = W
    /\ k.pc = "filing" =>
          /\ k.req.tool \in Sending /\ k.reply = W /\ {Draft(c), Submission(c)} \subseteq W
          /\ W \subseteq {Draft(c), Blob(c), Submission(c)}
    /\ k.pc = "replied" =>
          /\ IF k.req.tool = "set_audit_mailbox" THEN W = {} ELSE k.reply = W
          /\ k.req.tool \in OneRecord => W = {} \/ Cardinality(W) = 1
          /\ k.req.tool \in Sending =>
                /\ W \subseteq {Draft(c), Blob(c), Submission(c)}
                /\ Submission(c) \in W => Draft(c) \in W

\* What an answer says of the records changed, and of the note it leaves.
Truthful(c, k, W) ==
    k.kind = "ok" =>
        /\ k.req.tool # "set_audit_mailbox" => k.count = Cardinality(W)
        /\ k.req.tool \in Sending => Submission(c) \in W

Unsent(c, k, W) ==
    k.kind \in {"limited", "invalid", "failed", "expired"} =>
        /\ Submission(c) \notin W
        /\ k.req.tool \notin Emptying => W \subseteq {Draft(c), Blob(c)}

Noted(c, k, W, n) ==
    c \notin Anonymous /\ k.audited /\ W # {} /\ n = None =>
        k.kind = "expired" /\ k.req.tool \in Emptying \cup Attaching

CallInv(c, k, W, n) ==
    /\ k.pc = "idle" => k = Idle /\ W = {}
    /\ k.pc # "idle" => k.req \in Requests
    /\ k.pc # "answered" => n = None
    /\ k.pc = "begun" => W = {} /\ k.reply = {} /\ k.total = 0
    /\ k.pc \notin {"idle", "answered"} =>
          IF k.req.tool \in Emptying THEN EmptyingSoFar(c, k, W) ELSE KnownSoFar(c, k, W)
    /\ k.pc = "answered" => Truthful(c, k, W) /\ Unsent(c, k, W) /\ Noted(c, k, W, n)
    /\ k.sent # None => RoleOf[k.sent] = "sent"

-----------------------------------------------------------------------------
(* What the calls know of the mail account.                                *)

\* A message nobody has created.
Fresh(i) == mail[i] = None /\ \A d \in Calls : i \notin done[d]

\* Call k may have created its draft.
Drafting(k) ==
    /\ k.pc \in {"half", "filing", "replied", "answered"}
    /\ k.req.tool \in Sending \cup {"save_draft"}

FreshInv(c) ==
    /\ ~ Drafting(call[c]) => Fresh(Draft(c))
    /\ (note[c] = None \/ note[c].pc = "spawned") => Fresh(Note(c))

\* What an emptying destroyed stays destroyed.
GoneInv(c) ==
    call[c].pc # "idle" /\ Tool(c) \in Emptying =>
        \A i \in done[c] \cap MailIds : mail[i] = None

\* Messages somebody changed.
Touched == moved \cup UNION {done[d] : d \in Calls}

\* A message a call found in its mailbox is still there unless somebody
\* changed it, and an empty page of Email/query shows that somebody did.
HeldInv(c) ==
    /\ \A i \in call[c].held :
          i \in Touched \/ (mail[i] # None /\ call[c].to \in mail[i].in)
    /\ \/ call[c].pc \in {"half", "replied"} /\ call[c].queried = {}
       \/ call[c].pc = "answered" /\ call[c].kind = "ok"
       => (Tool(c) \in Emptying => call[c].held \subseteq Touched)

\* The draft of a send is as it was created until the submission files it.
IsDraft(m, k) == m = [in |-> {k.to}, kw |-> {"$draft", "$seen"}]
IsFiled(m, k) ==
    /\ "$draft" \notin m.kw
    /\ m.in = {IF k.sent = None THEN k.to ELSE k.sent}

CopyInv(c) ==
    call[c].pc # "idle" /\ Tool(c) \in Sending /\ mail[Draft(c)] # None =>
        /\ call[c].pc \in {"half", "filing"} => IsDraft(mail[Draft(c)], call[c])
        /\ /\ \/ call[c].pc = "replied" /\ Submission(c) \in call[c].reply
              \/ call[c].pc = "answered" /\ call[c].kind = "ok"
           /\ call[c].sent \in Live \cup {None}
           => IsFiled(mail[Draft(c)], call[c])

\* A mailbox that was designated stays so, or another takes its place.
AuditInv(c) == call[c].audited => registry # None

OwnInv(c) ==
    /\ CallInv(c, call[c], done[c], note[c])
    /\ AuditInv(c)
    /\ FreshInv(c)
    /\ GoneInv(c)
    /\ HeldInv(c)
    /\ CopyInv(c)

ToolsInv == Typed /\ \A c \in Calls : OwnInv(c)

-----------------------------------------------------------------------------
(* Records.                                                                *)

\* The ids a call makes are its own.
LEMMA OwnRecords ==
    ASSUME NEW c \in Calls
    PROVE  /\ Draft(c) \in MailIds /\ Note(c) \in MailIds
           /\ Draft(c) \notin Mails /\ Note(c) \notin Mails
           /\ {Submission(c), Blob(c), Object(c)} \cap MailIds = {}
           /\ Submission(c) \notin {Draft(c), Blob(c)}
           /\ Blob(c) \notin {Draft(c), Note(c)}
           /\ {Draft(c), Submission(c), Blob(c), Object(c)} \subseteq Records
           /\ \A d \in Calls : Draft(d) # Note(c) /\ (d # c => Draft(d) # Draft(c) /\ Note(d) # Note(c))
<1>1. \A kind \in {"draft", "submission", "blob", "object", "note"} : <<kind, c>> \notin Mails
    BY MailAssumption
<1>2. QED
    BY <1>1 DEF MailIds, Records, Draft, Note, Submission, Blob, Object

\* There are finitely many records.
LEMMA RecordsFinite == IsFiniteSet(Records)
<1>1. ASSUME NEW kind PROVE IsFiniteSet({<<kind, c>> : c \in Calls})
    <2> DEFINE T == {<<kind, c>> : c \in Calls}
               f == [c \in Calls |-> <<kind, c>>]
    <2>1. f \in Surjection(Calls, T)
        BY DEF Surjection
    <2>2. IsFiniteSet(Calls)
        BY MailAssumption
    <2> HIDE DEF T, f
    <2>3. IsFiniteSet(T)
        BY <2>1, <2>2, FS_Surjection
    <2>4. QED  BY <2>3 DEF T
<1>2. IsFiniteSet(Mails)
    BY MailAssumption
<1>3. /\ IsFiniteSet({Draft(c) : c \in Calls}) /\ IsFiniteSet({Note(c) : c \in Calls})
      /\ IsFiniteSet({Submission(c) : c \in Calls}) /\ IsFiniteSet({Blob(c) : c \in Calls})
      /\ IsFiniteSet({Object(c) : c \in Calls})
    BY <1>1 DEF Draft, Note, Submission, Blob, Object
<1>4. IsFiniteSet(MailIds)
    BY <1>2, <1>3, FS_Union DEF MailIds
<1>5. IsFiniteSet(MailIds \cup {Submission(c) : c \in Calls})
    BY <1>3, <1>4, FS_Union
<1>6. IsFiniteSet(MailIds \cup {Submission(c) : c \in Calls} \cup {Blob(c) : c \in Calls})
    BY <1>3, <1>5, FS_Union
<1>7. QED  BY <1>3, <1>6, FS_Union DEF Records

\* A set of records has a cardinality; so has the union of two apart.
LEMMA RecordCount ==
    ASSUME NEW V \in SUBSET Records
    PROVE  /\ IsFiniteSet(V) /\ Cardinality(V) \in Nat
           /\ Cardinality(V) = 0 <=> V = {}
           /\ \A W \in SUBSET Records : V \cap W = {} =>
                 Cardinality(V \cup W) = Cardinality(V) + Cardinality(W)
<1>1. ASSUME NEW W \in SUBSET Records PROVE IsFiniteSet(W) /\ Cardinality(W) \in Nat
    BY RecordsFinite, FS_Subset, FS_CardinalityType
<1>2. Cardinality({}) = 0
    BY FS_EmptySet
<1>3. ASSUME NEW W \in SUBSET Records, V \cap W = {}
      PROVE  Cardinality(V \cup W) = Cardinality(V) + Cardinality(W)
    <2>1. IsFiniteSet(V) /\ IsFiniteSet(W) /\ Cardinality(V) \in Nat /\ Cardinality(W) \in Nat
        BY <1>1
    <2>2. Cardinality(V \cup W) = Cardinality(V) + Cardinality(W) - Cardinality(V \cap W)
        BY <2>1, FS_Union
    <2>3. Cardinality(V \cap W) = 0
        BY <1>2, <1>3, Zenon
    <2>4. QED  BY <2>1, <2>2, <2>3
<1>4. IsFiniteSet(V) /\ Cardinality(V) \in Nat
    BY <1>1
<1>5. Cardinality(V) = 0 <=> V = {}
    BY <1>4, FS_EmptySet
<1>6. QED  BY <1>3, <1>4, <1>5

\* The message lists a caller gives name messages; update_draft() one.
LEMMA RequestIds ==
    ASSUME NEW q \in Requests
    PROVE  /\ q.ids \subseteq Mails
           /\ q.tool = "update_draft" => \E m \in Mails : q.ids = {m}
           /\ q.tool \in BoxTools => q.box \in Boxes
<1>1. CASE q \in [tool: KeywordTools \cup BulkTools, ids: IdSets, box: {None}]
                  \cup [tool: TargetTools, ids: IdSets, box: ArgBoxes]
    <2>1. q.ids \in IdSets /\ q.tool \in KeywordTools \cup BulkTools \cup TargetTools
        BY <1>1
    <2>2. QED  BY <2>1, MailAssumption DEF KeywordTools, BulkTools, TargetTools, BoxTools
<1>2. CASE q \in [tool: Quoting \cup {"update_draft"}, ids: {{m} : m \in Mails}, box: {None}]
    <2>1. q.ids \in {{m} : m \in Mails} /\ q.tool \in Quoting \cup {"update_draft"}
        BY <1>2
    <2>2. QED  BY <2>1 DEF Quoting, BoxTools
<1>3. CASE q \in [tool: Emptying \cup {"send_email", "save_draft"} \cup Attaching
                          \cup ObjectTools, ids: {{}}, box: {None}]
                  \cup [tool: BoxTools, ids: {{}}, box: ArgBoxes]
    <2>1. q.ids = {} /\ q.tool # "update_draft"
        BY <1>3 DEF Emptying, Attaching, ObjectTools, BoxTools
    <2>2. q.tool \in BoxTools => q.box \in ArgBoxes
        BY <1>3 DEF Emptying, Attaching, ObjectTools, BoxTools
    <2>3. QED  BY <2>1, <2>2, MailAssumption
<1>4. QED  BY <1>1, <1>2, <1>3 DEF Requests

-----------------------------------------------------------------------------
(* What one call's step does to the others.                                *)

\* A step of call c as the rest of the system sees it.
Frame(c) ==
    /\ \A d \in Calls \ {c} :
          call'[d] = call[d] /\ done'[d] = done[d] /\ note'[d] = note[d]
    /\ done[c] \subseteq done'[c]
    /\ moved \subseteq moved'
    /\ registry # None => registry' # None
    /\ \A b \in Boxes : RoleOf[b] = "sent" /\ b \in Live' => b \in Live

\* It changes messages that exist, its draft and its note, and answers for
\* them.
MailStep(c) ==
    /\ \A i \in MailIds :
          \/ mail'[i] = mail[i]
          \/ i \in done'[c] /\ mail'[i] = None
          \/ i \in done'[c] /\ mail[i] # None /\ i \in Mails
          \/ i \in done'[c] /\ i = Draft(c) /\ (mail[i] # None \/ Fresh(i))
          \/ i = Note(c) /\ Fresh(i)
    /\ \A i \in MailIds \cap (done'[c] \ done[c]) : i = Draft(c) \/ mail[i] # None

\* Every other call's knowledge survives such a step.
LEMMA OthersKept ==
    ASSUME ToolsInv, NEW c \in Calls, Frame(c), MailStep(c), NEW d \in Calls, d # c
    PROVE  OwnInv(d)'
<1>0. OwnInv(d) /\ call[d] \in Call /\ done[d] \subseteq Records /\ call'[d] = call[d]
      /\ done'[d] = done[d] /\ note'[d] = note[d]
    BY DEF ToolsInv, Typed, Frame
<1>1. CallInv(d, call'[d], done'[d], note'[d])
    BY <1>0 DEF OwnInv
<1>2. AuditInv(d)'
    BY <1>0 DEF OwnInv, AuditInv, Frame
<1>3. ASSUME NEW i \in MailIds, i = Draft(d) \/ i = Note(d), Fresh(i) PROVE Fresh(i)'
    <2>1. i # Draft(c) /\ i # Note(c) /\ i \notin Mails
        BY <1>3, OwnRecords
    <2>2. mail'[i] = None
        BY <1>3, <2>1 DEF MailStep, Fresh
    <2>3. i \notin done'[c]
        BY <1>3, <2>1 DEF MailStep, Fresh
    <2>4. \A e \in Calls : i \notin done'[e]
        BY <1>3, <2>3 DEF Frame, Fresh
    <2>5. QED  BY <2>2, <2>4 DEF Fresh
<1>4. FreshInv(d)'
    <2>1. Draft(d) \in MailIds /\ Note(d) \in MailIds
        BY OwnRecords
    <2>2. QED  BY <1>0, <1>3, <2>1 DEF OwnInv, FreshInv
<1>5. GoneInv(d)'
    <2>1. SUFFICES ASSUME call[d].pc # "idle", Tool(d) \in Emptying,
                          NEW i \in done[d] \cap MailIds
                   PROVE  mail'[i] = None
        BY <1>0 DEF GoneInv, Tool
    <2>2. mail[i] = None
        BY <1>0, <2>1 DEF OwnInv, GoneInv
    <2>3. QED  BY <2>1, <2>2 DEF MailStep, Fresh
<1>6. Touched \subseteq Touched' /\ \A i \in done'[c] : i \in Touched'
    <2>1. \A e \in Calls : done[e] \subseteq done'[e]
        BY DEF Frame
    <2>2. QED  BY <2>1 DEF Touched, Frame
<1>7. HeldInv(d)'
    <2>1. ASSUME NEW i \in call[d].held
          PROVE  i \in Touched' \/ (mail'[i] # None /\ call[d].to \in mail'[i].in)
        <3>1. i \in MailIds
            BY <1>0 DEF Call
        <3>2. i \in Touched \/ (mail[i] # None /\ call[d].to \in mail[i].in)
            BY <1>0 DEF OwnInv, HeldInv
        <3>3. mail'[i] = mail[i] \/ i \in done'[c] \/ mail[i] = None
            BY <3>1 DEF MailStep, Fresh
        <3>4. QED  BY <1>6, <3>2, <3>3
    <2>2. QED  BY <1>0, <1>6, <2>1 DEF OwnInv, HeldInv, Tool
<1>8. CopyInv(d)'
    <2>1. mail'[Draft(d)] = mail[Draft(d)] \/ mail'[Draft(d)] = None
        BY OwnRecords DEF MailStep
    <2>2. call[d].sent # None => RoleOf[call[d].sent] = "sent" /\ call[d].sent \in Boxes
        BY <1>0 DEF OwnInv, CallInv, Call
    <2>3. call[d].sent \in Live' \cup {None} => call[d].sent \in Live \cup {None}
        BY <2>2 DEF Frame
    <2>4. QED  BY <1>0, <2>1, <2>3 DEF OwnInv, CopyInv, Tool
<1>9. QED  BY <1>1, <1>2, <1>4, <1>5, <1>7, <1>8 DEF OwnInv

\* So a step keeps the invariant if its own call's knowledge survives it.
LEMMA StepKeeps ==
    ASSUME ToolsInv, NEW c \in Calls, Frame(c), MailStep(c), Typed', OwnInv(c)'
    PROVE  ToolsInv'
    BY OthersKept DEF ToolsInv

\* The step a call takes before Stalwart has changed anything more for it.
LEMMA QuietKeeps ==
    ASSUME ToolsInv, NEW c \in Calls, UNCHANGED <<mail, box, done, moved>>,
           \A d \in Calls \ {c} : call'[d] = call[d] /\ note'[d] = note[d],
           call' \in [Calls -> Call], note' \in [Calls -> Notes \cup {None}],
           registry' \in Boxes \cup {None}, registry # None => registry' # None,
           OwnInv(c)'
    PROVE  ToolsInv'
<1>1. mail' = mail /\ box' = box /\ done' = done /\ moved' = moved
    OBVIOUS
<1>2. Typed /\ Typed'
    BY <1>1 DEF ToolsInv, Typed
<1>3. Frame(c)
    BY <1>1 DEF Frame, Live
<1>4. MailStep(c)
    BY <1>1 DEF MailStep
<1>5. QED  BY <1>2, <1>3, <1>4, StepKeeps

-----------------------------------------------------------------------------
(* Answers.                                                                *)

\* What Finish() makes of the call and its note.
LEMMA FinishEffect ==
    ASSUME Typed, NEW c \in Calls, NEW kind \in Kinds, NEW count \in Nat,
           NEW designated \in Boxes \cup {None}, Finish(c, kind, count, designated)
    PROVE  /\ call' \in [Calls -> Call]
           /\ note' \in [Calls -> Notes \cup {None}]
           /\ \A d \in Calls \ {c} : call'[d] = call[d] /\ note'[d] = note[d]
           /\ call'[c].pc = "answered" /\ call'[c].kind = kind /\ call'[c].count = count
           /\ call'[c].req = call[c].req /\ call'[c].to = call[c].to
           /\ call'[c].sent = call[c].sent /\ call'[c].held = call[c].held
           /\ call'[c].audited = call[c].audited
           /\ note'[c] = None \/ note'[c].pc = "spawned"
           /\ note'[c] = None =>
                 kind \in {"limited", "expired"} \/ designated = None \/ c \in Anonymous
<1> DEFINE new == [call[c] EXCEPT !.pc = "answered", !.kind = kind, !.count = count,
                                  !.queried = {}, !.reply = {}, !.total = 0]
           rec == [at |-> designated, pc |-> "spawned",
                   outcome |-> IF kind = "ok" THEN "ok" ELSE "error"]
<1>0. call[c] \in Call
    BY DEF Typed
<1>1. /\ new \in Call
      /\ new.pc = "answered" /\ new.kind = kind /\ new.count = count
      /\ new.req = call[c].req /\ new.to = call[c].to /\ new.sent = call[c].sent
      /\ new.held = call[c].held /\ new.audited = call[c].audited
    BY <1>0 DEF Call
<1>2. call' = [call EXCEPT ![c] = new]
    BY <1>0 DEF Finish, Typed, Call
<1>3. rec.pc = "spawned" /\ (designated # None => rec # None /\ rec \in Notes)
    <2>1. rec.pc = "spawned"
        OBVIOUS
    <2>2. designated # None => rec \in Notes
        BY DEF Notes
    <2>3. QED  BY <2>1, <2>2, MailAssumption DEF Notes
<1>4. note' = [note EXCEPT ![c] =
         IF SkipsNote(kind) \/ designated = None \/ c \in Anonymous THEN None ELSE rec]
    BY DEF Finish
<1> HIDE DEF new, rec
<1>5. /\ note' \in [Calls -> Notes \cup {None}]
      /\ \A d \in Calls \ {c} : note'[d] = note[d]
      /\ note'[c] = None \/ note'[c].pc = "spawned"
      /\ note'[c] = None =>
            kind \in {"limited", "expired"} \/ designated = None \/ c \in Anonymous
    BY <1>3, <1>4 DEF Typed, SkipsNote
<1>6. /\ call' \in [Calls -> Call] /\ call'[c] = new
      /\ \A d \in Calls \ {c} : call'[d] = call[d]
    BY <1>1, <1>2 DEF Typed
<1>7. QED  BY <1>1, <1>5, <1>6

\* What an answer must be able to rely on.
Justified(c, kind, count) ==
    /\ kind = "ok" =>
          /\ Tool(c) # "set_audit_mailbox" => count = Cardinality(done[c])
          /\ Tool(c) \in Sending =>
                /\ Submission(c) \in done[c]
                /\ call[c].pc = "replied" /\ Submission(c) \in call[c].reply
          /\ Tool(c) \in Emptying => call[c].held \subseteq Touched
    /\ kind \in {"limited", "invalid", "failed", "expired"} =>
          /\ Submission(c) \notin done[c]
          /\ Tool(c) \notin Emptying => done[c] \subseteq {Draft(c), Blob(c)}
    /\ kind \in {"limited", "expired"} /\ done[c] # {} =>
          kind = "expired" /\ Tool(c) \in Emptying \cup Attaching

\* An answer that is justified keeps the invariant.
LEMMA AnswerKeeps ==
    ASSUME ToolsInv, NEW c \in Calls, call[c].pc \notin {"idle", "answered"},
           NEW kind \in Kinds, NEW count \in Nat, NEW designated \in Boxes \cup {None},
           Finish(c, kind, count, designated), registry' = designated,
           registry # None => designated # None,
           UNCHANGED <<mail, box, done, moved>>, Justified(c, kind, count)
    PROVE  ToolsInv'
<1>0. Typed /\ OwnInv(c) /\ call[c] \in Call
    BY DEF ToolsInv, Typed
<1>1. /\ call' \in [Calls -> Call]
      /\ note' \in [Calls -> Notes \cup {None}]
      /\ \A d \in Calls \ {c} : call'[d] = call[d] /\ note'[d] = note[d]
      /\ call'[c].pc = "answered" /\ call'[c].kind = kind /\ call'[c].count = count
      /\ call'[c].req = call[c].req /\ call'[c].to = call[c].to
      /\ call'[c].sent = call[c].sent /\ call'[c].held = call[c].held
      /\ call'[c].audited = call[c].audited
      /\ note'[c] = None \/ note'[c].pc = "spawned"
      /\ note'[c] = None =>
            kind \in {"limited", "expired"} \/ designated = None \/ c \in Anonymous
    BY <1>0, FinishEffect
<1>2. mail' = mail /\ box' = box /\ done' = done /\ moved' = moved
      /\ Live' = Live /\ Touched' = Touched
    BY DEF Live, Touched
<1>3. CallInv(c, call'[c], done'[c], note'[c])
    <2>1. call[c].req \in Requests /\ (call[c].sent # None => RoleOf[call[c].sent] = "sent")
        BY <1>0 DEF OwnInv, CallInv
    <2>2. Truthful(c, call'[c], done[c]) /\ Unsent(c, call'[c], done[c])
        BY <1>1 DEF Justified, Truthful, Unsent, Tool
    <2>3. call[c].audited => designated # None
        BY <1>0 DEF OwnInv, AuditInv
    <2>4. Noted(c, call'[c], done[c], note'[c])
        BY <1>1, <2>3 DEF Justified, Noted, Tool
    <2>5. QED  BY <1>1, <1>2, <2>1, <2>2, <2>4 DEF CallInv
<1>4. AuditInv(c)'
    BY <1>0, <1>1 DEF OwnInv, AuditInv
<1>5. FreshInv(c)'
    <2>1. note[c] = None
        BY <1>0 DEF OwnInv, CallInv
    <2>2. Drafting(call[c]) => Drafting(call'[c])
        BY <1>1 DEF Drafting
    <2>3. QED  BY <1>0, <1>2, <2>1, <2>2 DEF OwnInv, FreshInv, Fresh
<1>6. GoneInv(c)'
    BY <1>0, <1>1, <1>2 DEF OwnInv, GoneInv, Tool
<1>7. HeldInv(c)'
    BY <1>0, <1>1, <1>2 DEF OwnInv, HeldInv, Tool, Justified
<1>8. CopyInv(c)'
    BY <1>0, <1>1, <1>2 DEF OwnInv, CopyInv, Tool, Justified, IsFiled, IsDraft
<1>9. OwnInv(c)'
    BY <1>3, <1>4, <1>5, <1>6, <1>7, <1>8 DEF OwnInv
<1>10. QED  BY <1>1, <1>9, QuietKeeps

\* A tool that answers and changes nothing else.
LEMMA PlainAnswer ==
    ASSUME ToolsInv, NEW c \in Calls, call[c].pc \notin {"idle", "answered"},
           NEW kind \in Kinds, NEW count \in Nat, Answer(c, kind, count),
           Justified(c, kind, count)
    PROVE  ToolsInv'
<1>1. registry \in Boxes \cup {None} /\ registry' = registry
    BY DEF ToolsInv, Typed, Answer
<1>2. Finish(c, kind, count, registry) /\ UNCHANGED <<mail, box, done, moved>>
    BY DEF Answer
<1>3. QED  BY <1>1, <1>2, AnswerKeeps

\* A refusal, or an error nobody can explain, at any stage of a call.
LEMMA RefusalKeeps ==
    ASSUME ToolsInv, NEW c \in Calls, NEW kind \in Kinds, Answer(c, kind, 0),
           \/ call[c].pc = "begun" /\ kind # "ok"
           \/ call[c].pc \in {"listed", "ready", "uploaded"} /\ kind \notin {"ok", "limited"}
           \/ call[c].pc = "half" /\ kind \in {"invalid", "error"}
           \/ call[c].pc \in {"filing", "replied"} /\ kind = "error"
    PROVE  ToolsInv'
<1>1. CallInv(c, call[c], done[c], note[c])
    BY DEF ToolsInv, OwnInv
<1>2. Submission(c) \notin MailIds /\ Submission(c) \notin {Draft(c), Blob(c)}
    BY OwnRecords
<1>3. Justified(c, kind, 0)
    <2>1. CASE Tool(c) \in Emptying
        BY <1>1, <1>2, <2>1 DEF Justified, CallInv, EmptyingSoFar, Tool
    <2>2. CASE Tool(c) \notin Emptying
        BY <1>1, <1>2, <2>2 DEF Justified, CallInv, KnownSoFar, Tool
    <2>3. QED  BY <2>1, <2>2
<1>4. QED  BY <1>3, PlainAnswer

\* rate_limit_check(), the parameter checks, and the failures of a request.
LEMMA RejectedKeeps ==
    ASSUME ToolsInv, NEW c \in Calls, Rejected(c)
    PROVE  ToolsInv'
    BY RefusalKeeps DEF Rejected, Kinds

\* Every failure of a request to Stalwart is answered for.
LEMMA FailsKeeps ==
    ASSUME ToolsInv, NEW c \in Calls, Fails(c)
    PROVE  ToolsInv'
    BY RefusalKeeps DEF Fails, Kinds

\* The tools that report how many messages a response lists.
LEMMA CountKeeps ==
    ASSUME ToolsInv, NEW c \in Calls, AnswerCount(c),
           Tool(c) \notin Sending \cup Emptying \cup {"set_audit_mailbox"}
    PROVE  ToolsInv'
<1>1. CallInv(c, call[c], done[c], note[c]) /\ call[c].reply \in SUBSET Records
    BY DEF ToolsInv, Typed, OwnInv, Call
<1>2. call[c].pc = "replied" /\ Answer(c, "ok", Cardinality(call[c].reply))
    BY DEF AnswerCount
<1>3. call[c].reply = done[c]
    BY <1>1, <1>2 DEF CallInv, KnownSoFar, Tool
<1>4. Justified(c, "ok", Cardinality(call[c].reply))
    BY <1>3 DEF Justified
<1>5. Cardinality(call[c].reply) \in Nat
    BY <1>1, RecordCount
<1>6. QED  BY <1>2, <1>4, <1>5, PlainAnswer DEF Kinds

\* The tools that change one record.
LEMMA OneKeeps ==
    ASSUME ToolsInv, NEW c \in Calls, Tool(c) \in OneRecord,
           NEW refusal \in {"invalid", "failed"}, AnswerOne(c, refusal)
    PROVE  ToolsInv'
<1>1. CallInv(c, call[c], done[c], note[c])
    BY DEF ToolsInv, OwnInv
<1>2. call[c].pc = "replied"
    BY DEF AnswerOne
<1>3. Tool(c) \notin Sending \cup Emptying \cup {"set_audit_mailbox"}
    BY DEF OneRecord, ObjectTools, Sending, Attaching, Quoting, Emptying
<1>4. call[c].reply = done[c] /\ (done[c] = {} \/ Cardinality(done[c]) = 1)
    BY <1>1, <1>2, <1>3 DEF CallInv, KnownSoFar, Tool
<1>5. CASE call[c].reply = {}
    <2>1. Justified(c, refusal, 0)
        BY <1>4, <1>5 DEF Justified
    <2>2. Answer(c, refusal, 0)
        BY <1>5 DEF AnswerOne
    <2>3. QED  BY <1>2, <2>1, <2>2, PlainAnswer DEF Kinds
<1>6. CASE call[c].reply # {}
    <2>1. Justified(c, "ok", 1)
        BY <1>3, <1>4, <1>6 DEF Justified
    <2>2. Answer(c, "ok", 1)
        BY <1>6 DEF AnswerOne
    <2>3. QED  BY <1>2, <2>1, <2>2, PlainAnswer DEF Kinds
<1>7. QED  BY <1>5, <1>6

\* The sending tools: Ok only with a draft and a submission.
LEMMA SendAnswerKeeps ==
    ASSUME ToolsInv, NEW c \in Calls, Tool(c) \in Sending, AnswerSend(c)
    PROVE  ToolsInv'
<1>1. CallInv(c, call[c], done[c], note[c]) /\ call[c].reply \in SUBSET Records
    BY DEF ToolsInv, Typed, OwnInv, Call
<1>2. call[c].pc = "replied"
    BY DEF AnswerSend
<1>3. Tool(c) \notin Emptying /\ Tool(c) # "set_audit_mailbox"
    BY DEF Sending, Attaching, Quoting, Emptying
<1>4. /\ call[c].reply = done[c]
      /\ done[c] \subseteq {Draft(c), Blob(c), Submission(c)}
      /\ Submission(c) \in done[c] => Draft(c) \in done[c]
    BY <1>1, <1>2, <1>3 DEF CallInv, KnownSoFar, Tool
<1>5. CASE Created(c)
    <2>1. Justified(c, "ok", Cardinality(call[c].reply))
        BY <1>2, <1>3, <1>4, <1>5 DEF Justified, Created
    <2>2. Answer(c, "ok", Cardinality(call[c].reply)) /\ Cardinality(call[c].reply) \in Nat
        BY <1>1, <1>5, RecordCount DEF AnswerSend
    <2>3. QED  BY <1>2, <2>1, <2>2, PlainAnswer DEF Kinds
<1>6. CASE ~ Created(c)
    <2>1. Justified(c, "failed", 0)
        BY <1>4, <1>6 DEF Justified, Created
    <2>2. Answer(c, "failed", 0)
        BY <1>6 DEF AnswerSend
    <2>3. QED  BY <1>2, <2>1, <2>2, PlainAnswer DEF Kinds
<1>7. QED  BY <1>5, <1>6

-----------------------------------------------------------------------------
(* Steps that only move a call on.                                         *)

\* A call that reads, and nothing else.
LEMMA MoveKeeps ==
    ASSUME ToolsInv, NEW c \in Calls, NEW new \in Call, call' = [call EXCEPT ![c] = new],
           UNCHANGED <<mail, box, registry, note, done, moved>>,
           CallInv(c, new, done[c], note[c]), new.audited => registry # None,
           Drafting(call[c]) => Drafting(new),
           new.pc \in {"begun", "listed", "ready"} \/ new.req.tool \notin Sending,
           done[c] = {} \/ (call[c].pc # "idle" /\ new.req = call[c].req),
           \A i \in new.held : i \in Touched \/ (mail[i] # None /\ new.to \in mail[i].in),
           new.pc # "answered",
           new.pc \in {"half", "replied"} /\ new.queried = {} =>
               (new.req.tool \in Emptying => new.held \subseteq Touched)
    PROVE  ToolsInv'
<1>1. mail' = mail /\ box' = box /\ registry' = registry /\ note' = note /\ done' = done
      /\ moved' = moved
    OBVIOUS
<1>2. Typed /\ OwnInv(c)
    BY DEF ToolsInv
<1>3. /\ call' \in [Calls -> Call] /\ call'[c] = new
      /\ \A d \in Calls \ {c} : call'[d] = call[d]
    BY <1>2 DEF Typed
<1>4. CallInv(c, call'[c], done'[c], note'[c]) /\ AuditInv(c)'
    BY <1>1, <1>3 DEF AuditInv
<1>5. FreshInv(c)'
    BY <1>1, <1>2, <1>3 DEF OwnInv, FreshInv, Fresh
<1>6. GoneInv(c)'
    BY <1>1, <1>2, <1>3 DEF OwnInv, GoneInv, Tool
<1>7. HeldInv(c)'
    BY <1>1, <1>3 DEF HeldInv, Touched, Tool
<1>8. CopyInv(c)'
    BY <1>1, <1>3 DEF CopyInv, Tool
<1>9. OwnInv(c)'
    BY <1>4, <1>5, <1>6, <1>7, <1>8 DEF OwnInv
<1>10. QED  BY <1>1, <1>2, <1>3, <1>9, QuietKeeps DEF Typed

\* A call arrives.
LEMMA BeginKeeps ==
    ASSUME ToolsInv, NEW c \in Calls, Begin(c)
    PROVE  ToolsInv'
<1>1. PICK q \in Requests :
         call' = [call EXCEPT ![c].pc = "begun", ![c].req = q,
                              ![c].audited = (registry # None)]
    BY DEF Begin
<1>2. call[c] \in Call /\ OwnInv(c) /\ call[c].pc = "idle" /\ call \in [Calls -> Call]
    BY DEF ToolsInv, Typed, Begin
<1>3. call[c] = Idle /\ done[c] = {} /\ note[c] = None
    BY <1>2 DEF OwnInv, CallInv
<1> DEFINE new == [call[c] EXCEPT !.pc = "begun", !.req = q, !.audited = (registry # None)]
<1>4. /\ new \in Call /\ new.pc = "begun" /\ new.req = q
      /\ new.audited = (registry # None)
    BY <1>2 DEF Call
<1>5. /\ new.reply = {} /\ new.total = 0 /\ new.held = {} /\ new.sent = None
    BY <1>3 DEF Idle
<1>6. call' = [call EXCEPT ![c] = new]
    BY <1>1, <1>2 DEF Call
<1> HIDE DEF new
<1>7. CallInv(c, new, done[c], note[c])
    <2>1. Cardinality(done[c]) = 0
        BY <1>3, FS_EmptySet
    <2>2. EmptyingSoFar(c, new, done[c]) /\ KnownSoFar(c, new, done[c])
        BY <1>3, <1>4, <1>5, <2>1 DEF EmptyingSoFar, KnownSoFar
    <2>3. QED  BY <1>3, <1>4, <1>5, <2>2 DEF CallInv
<1>8. ~ Drafting(call[c])
    BY <1>2 DEF Drafting
<1>9. QED  BY <1>3, <1>4, <1>5, <1>6, <1>7, <1>8, MoveKeeps DEF Begin

\* role_mailbox() finds a mailbox that has the role, or none.
LEMMA RoleMailboxFound ==
    ASSUME NEW role, RoleMailbox(role) # None
    PROVE  RoleMailbox(role) \in Live /\ RoleOf[RoleMailbox(role)] = role
    BY DEF RoleMailbox

\* all_mailboxes() and the lookups by role.
LEMMA ListKeeps ==
    ASSUME ToolsInv, NEW c \in Calls, ListMailboxes(c)
    PROVE  ToolsInv'
<1>1. PICK role \in DOMAIN RoleUsers :
         /\ Tool(c) \in RoleUsers[role]
         /\ IF RoleMailbox(role) = None
            THEN Answer(c, IF Tool(c) \in {"mark_as_spam", "mark_as_not_spam"}
                           THEN "invalid" ELSE "failed", 0)
            ELSE /\ call' = [call EXCEPT ![c].pc = "listed",
                        ![c].to = RoleMailbox(role),
                        ![c].sent = RoleMailbox("sent"),
                        ![c].held = Contents(RoleMailbox(role))]
                 /\ UNCHANGED <<mail, box, registry, note, done, moved>>
    BY DEF ListMailboxes
<1>2. call[c] \in Call /\ OwnInv(c) /\ call[c].pc = "begun" /\ call \in [Calls -> Call]
    BY DEF ToolsInv, Typed, ListMailboxes
<1>3. CASE RoleMailbox(role) = None
    BY <1>1, <1>2, <1>3, RefusalKeeps DEF Kinds
<1>4. CASE RoleMailbox(role) # None
    <2> DEFINE b == RoleMailbox(role)
               s == RoleMailbox("sent")
               h == Contents(b)
               new == [call[c] EXCEPT !.pc = "listed", !.to = b, !.sent = s, !.held = h]
    <2>1. b \in Boxes /\ (s # None => s \in Boxes /\ RoleOf[s] = "sent")
        BY <1>4, RoleMailboxFound DEF Live
    <2>2. h \subseteq MailIds /\ \A i \in h : mail[i] # None /\ b \in mail[i].in
        BY DEF Contents, Exists
    <2>3. call' = [call EXCEPT ![c].pc = "listed", ![c].to = b, ![c].sent = s, ![c].held = h]
          /\ UNCHANGED <<mail, box, registry, note, done, moved>>
        BY <1>1, <1>4
    <2> HIDE DEF b, s, h
    <2>4. /\ new \in Call /\ new.pc = "listed" /\ new.req = call[c].req /\ new.to = b
          /\ new.sent = s /\ new.held = h /\ new.reply = call[c].reply
          /\ new.total = call[c].total /\ new.audited = call[c].audited
        BY <1>2, <2>1, <2>2 DEF Call
    <2>5. call' = [call EXCEPT ![c] = new]
        BY <1>2, <2>3 DEF Call
    <2> HIDE DEF new
    <2>6. /\ done[c] = {} /\ call[c].reply = {} /\ call[c].total = 0
          /\ call[c].req \in Requests /\ note[c] = None
        BY <1>2 DEF OwnInv, CallInv
    <2>7. CallInv(c, new, done[c], note[c])
        <3>1. Cardinality(done[c]) = 0
            BY <2>6, FS_EmptySet
        <3>2. EmptyingSoFar(c, new, done[c]) /\ KnownSoFar(c, new, done[c])
            BY <2>4, <2>6, <3>1 DEF EmptyingSoFar, KnownSoFar
        <3>3. QED  BY <2>1, <2>4, <2>6, <3>2 DEF CallInv
    <2>8. ~ Drafting(call[c]) /\ (new.audited => registry # None)
        BY <1>2, <2>4 DEF Drafting, OwnInv, AuditInv
    <2>9. QED  BY <2>2, <2>3, <2>4, <2>5, <2>6, <2>7, <2>8, MoveKeeps
<1>5. QED  BY <1>3, <1>4

\* get_email() and resolve_submission_identity().
LEMMA ComposeKeeps ==
    ASSUME ToolsInv, NEW c \in Calls, Tool(c) \in Sending \cup {"save_draft"}, Compose(c)
    PROVE  ToolsInv'
<1>1. call[c] \in Call /\ OwnInv(c) /\ call[c].pc = "listed" /\ call \in [Calls -> Call]
    BY DEF ToolsInv, Typed, Compose
<1>2. CASE Answer(c, "invalid", 0)
    BY <1>1, <1>2, RefusalKeeps DEF Kinds
<1>3. CASE /\ call' = [call EXCEPT ![c].pc = "ready"]
           /\ UNCHANGED <<mail, box, registry, note, done, moved>>
    <2> DEFINE new == [call[c] EXCEPT !.pc = "ready"]
    <2>1. /\ new \in Call /\ new.pc = "ready" /\ new.req = call[c].req /\ new.to = call[c].to
          /\ new.sent = call[c].sent /\ new.held = call[c].held
          /\ new.reply = call[c].reply /\ new.total = call[c].total
          /\ new.audited = call[c].audited
        BY <1>1 DEF Call
    <2>2. call' = [call EXCEPT ![c] = new]
        BY <1>1, <1>3 DEF Call
    <2> HIDE DEF new
    <2>3. Tool(c) \notin Emptying
        BY DEF Sending, Attaching, Quoting, Emptying
    <2>4. CallInv(c, call[c], done[c], note[c]) /\ KnownSoFar(c, call[c], done[c])
        BY <1>1, <2>3 DEF OwnInv, CallInv, Tool
    <2>5. KnownSoFar(c, new, done[c])
        BY <1>1, <2>1, <2>4 DEF KnownSoFar
    <2>6. CallInv(c, new, done[c], note[c])
        BY <1>1, <2>1, <2>3, <2>4, <2>5 DEF CallInv, Tool
    <2>7. /\ ~ Drafting(call[c]) /\ (new.audited => registry # None)
          /\ \A i \in new.held : i \in Touched \/ (mail[i] # None /\ new.to \in mail[i].in)
        BY <1>1, <2>1 DEF Drafting, OwnInv, AuditInv, HeldInv
    <2>8. QED  BY <1>1, <1>3, <2>1, <2>2, <2>6, <2>7, MoveKeeps
<1>4. QED  BY <1>2, <1>3 DEF Compose

\* set_audit_mailbox() reads the mailbox, then designates it and answers.
LEMMA SetAuditKeeps ==
    ASSUME ToolsInv, NEW c \in Calls, SetAuditMailbox(c)
    PROVE  ToolsInv'
<1> DEFINE b == call[c].req.box
           r == IF b \in Live THEN {Object(c)} ELSE {}
<1>1. call[c] \in Call /\ OwnInv(c) /\ call \in [Calls -> Call] /\ Tool(c) = "set_audit_mailbox"
    BY DEF ToolsInv, Typed, SetAuditMailbox
<1>2. CASE /\ call[c].pc = "begun"
           /\ call' = [call EXCEPT ![c].pc = "replied", ![c].reply = r]
           /\ UNCHANGED <<mail, box, registry, note, done, moved>>
    <2> DEFINE new == [call[c] EXCEPT !.pc = "replied", !.reply = r]
    <2>1. r \subseteq Records
        BY OwnRecords
    <2> HIDE DEF r
    <2>2. /\ new \in Call /\ new.pc = "replied" /\ new.req = call[c].req /\ new.to = call[c].to
          /\ new.sent = call[c].sent /\ new.held = call[c].held /\ new.reply = r
          /\ new.audited = call[c].audited
        BY <1>1, <2>1 DEF Call
    <2>3. call' = [call EXCEPT ![c] = new]
        BY <1>1, <1>2 DEF Call
    <2> HIDE DEF new
    <2>4. Tool(c) \notin Emptying \cup Sending \cup OneRecord \cup {"save_draft"}
        BY <1>1 DEF Sending, Attaching, Quoting, Emptying, OneRecord, ObjectTools
    <2>5. CallInv(c, call[c], done[c], note[c]) /\ done[c] = {}
        BY <1>1, <1>2 DEF OwnInv, CallInv
    <2>6. KnownSoFar(c, new, done[c])
        BY <1>1, <2>2, <2>4, <2>5 DEF KnownSoFar, Tool
    <2>7. CallInv(c, new, done[c], note[c])
        BY <1>2, <2>2, <2>4, <2>5, <2>6 DEF CallInv, Tool
    <2>8. /\ ~ Drafting(call[c]) /\ (new.audited => registry # None)
          /\ \A i \in new.held : i \in Touched \/ (mail[i] # None /\ new.to \in mail[i].in)
        BY <1>1, <1>2, <2>2 DEF Drafting, OwnInv, AuditInv, HeldInv
    <2>9. new.req.tool \notin Sending \cup Emptying /\ new.pc # "answered"
        BY <2>2, <2>4 DEF Tool
    <2>10. QED  BY <1>2, <2>2, <2>3, <2>5, <2>7, <2>8, <2>9, MoveKeeps
<1>3. ASSUME call[c].pc = "replied"
      PROVE  done[c] = {} /\ b \in Boxes
             /\ Tool(c) \notin Emptying \cup Sending
    <2>1. Tool(c) \notin Emptying \cup Sending
        BY <1>1 DEF Sending, Attaching, Quoting, Emptying
    <2>2. CallInv(c, call[c], done[c], note[c])
        BY <1>1 DEF OwnInv
    <2>3. done[c] = {} /\ call[c].req \in Requests
        BY <1>1, <1>3, <2>1, <2>2 DEF CallInv, KnownSoFar, Tool
    <2>4. QED  BY <1>1, <2>1, <2>3, RequestIds DEF BoxTools, Tool
<1>4. CASE call[c].pc = "replied" /\ Answer(c, "invalid", 0)
    <2>1. Justified(c, "invalid", 0)
        BY <1>3, <1>4 DEF Justified
    <2>2. QED  BY <1>4, <2>1, PlainAnswer DEF Kinds
<1>5. CASE /\ call[c].pc = "replied" /\ registry' = b /\ Finish(c, "ok", 0, b)
           /\ UNCHANGED <<mail, box, done, moved>>
    <2>1. Justified(c, "ok", 0)
        BY <1>1, <1>3, <1>5 DEF Justified
    <2>2. b # None /\ b \in Boxes
        BY <1>3, <1>5, MailAssumption
    <2> HIDE DEF b
    <2>3. QED  BY <1>5, <2>1, <2>2, AnswerKeeps DEF Kinds
<1>6. QED  BY <1>2, <1>4, <1>5 DEF SetAuditMailbox

\* empty_mailbox() asks for a page of what the mailbox holds now.
LEMMA EmptyQueryKeeps ==
    ASSUME ToolsInv, NEW c \in Calls, Tool(c) \in Emptying, EmptyQuery(c)
    PROVE  ToolsInv'
<1>1. call[c] \in Call /\ OwnInv(c) /\ call[c].pc = "listed" /\ call \in [Calls -> Call]
      /\ UNCHANGED <<mail, box, registry, note, done, moved>>
    BY DEF ToolsInv, Typed, EmptyQuery
<1>2. PICK q \in SUBSET Contents(call[c].to) :
         /\ q = {} => Contents(call[c].to) = {}
         /\ call' = [call EXCEPT ![c].pc = "half", ![c].queried = q, ![c].reply = {}]
    BY DEF EmptyQuery
<1>3. q \subseteq MailIds
    BY DEF Contents
<1> DEFINE new == [call[c] EXCEPT !.pc = "half", !.queried = q, !.reply = {}]
<1>4. /\ new \in Call /\ new.pc = "half" /\ new.req = call[c].req /\ new.to = call[c].to
      /\ new.sent = call[c].sent /\ new.held = call[c].held /\ new.reply = {}
      /\ new.queried = q /\ new.total = call[c].total /\ new.audited = call[c].audited
    BY <1>1, <1>3 DEF Call
<1>5. call' = [call EXCEPT ![c] = new]
    BY <1>1, <1>2 DEF Call
<1> HIDE DEF new
<1>6. CallInv(c, call[c], done[c], note[c]) /\ EmptyingSoFar(c, call[c], done[c])
    BY <1>1 DEF OwnInv, CallInv, Tool
<1>7. EmptyingSoFar(c, new, done[c])
    BY <1>1, <1>4, <1>6 DEF EmptyingSoFar
<1>8. CallInv(c, new, done[c], note[c])
    BY <1>1, <1>4, <1>6, <1>7 DEF CallInv, Tool
<1>9. Tool(c) \notin Sending \cup {"save_draft"}
    BY DEF Sending, Attaching, Quoting, Emptying
<1>10. /\ ~ Drafting(call[c]) /\ (new.audited => registry # None)
       /\ \A i \in new.held : i \in Touched \/ (mail[i] # None /\ new.to \in mail[i].in)
    BY <1>1, <1>4 DEF Drafting, OwnInv, AuditInv, HeldInv
<1>11. ASSUME q = {} PROVE new.held \subseteq Touched
    <2>1. \A i \in MailIds : ~ (mail[i] # None /\ new.to \in mail[i].in)
        BY <1>2, <1>4, <1>11 DEF Contents, Exists
    <2>2. new.held \subseteq MailIds
        BY <1>4 DEF Call
    <2>3. QED  BY <1>10, <2>1, <2>2
<1>12. new.req.tool \notin Sending
    BY <1>4, <1>9 DEF Tool
<1>13. QED  BY <1>1, <1>4, <1>5, <1>8, <1>10, <1>11, <1>12, MoveKeeps

\* account_empty_batch() and the way on.
LEMMA EmptyAccountKeeps ==
    ASSUME ToolsInv, NEW c \in Calls, Tool(c) \in Emptying, EmptyAccount(c)
    PROVE  ToolsInv'
<1> DEFINE Q == Cardinality(call[c].queried)
           D == Cardinality(call[c].reply)
           batch == AccountEmptyBatch(call[c].total, Q, D)
<1>1. call[c] \in Call /\ OwnInv(c) /\ call[c].pc = "replied" /\ call \in [Calls -> Call]
    BY DEF ToolsInv, Typed, EmptyAccount
<1>2. /\ CallInv(c, call[c], done[c], note[c])
      /\ done[c] \subseteq MailIds /\ call[c].reply \subseteq call[c].queried
      /\ Cardinality(done[c]) = call[c].total + D
      /\ call[c].total \in Nat
    BY <1>1 DEF OwnInv, CallInv, EmptyingSoFar, Tool, Call
<1>3. /\ call[c].queried \in SUBSET Records /\ call[c].reply \in SUBSET Records
      /\ Q \in Nat /\ D \in Nat
      /\ Q = 0 <=> call[c].queried = {}
      /\ D = 0 <=> call[c].reply = {}
    <2>1. call[c].queried \in SUBSET Records /\ call[c].reply \in SUBSET Records
        BY <1>1 DEF Call, Records
    <2>2. QED  BY <2>1, RecordCount
<1>4. Tool(c) \notin Sending \cup {"save_draft", "set_audit_mailbox"}
    BY DEF Sending, Attaching, Quoting, Emptying
<1>5. CASE batch.next = "stop" /\ Answer(c, "ok", call[c].total)
    <2>1. Q = 0
        BY <1>5 DEF AccountEmptyBatch, Stop, Partial, More
    <2>2. Cardinality(done[c]) = call[c].total /\ call[c].queried = {}
        BY <1>2, <1>3, <2>1
    <2>3. call[c].held \subseteq Touched
        BY <1>1, <2>2 DEF OwnInv, HeldInv
    <2>4. Justified(c, "ok", call[c].total)
        BY <1>4, <2>2, <2>3 DEF Justified
    <2>5. QED  BY <1>1, <1>2, <1>5, <2>4, PlainAnswer DEF Kinds
<1>6. CASE Answer(c, "failed", 0)
    <2>1. Submission(c) \notin done[c]
        BY <1>2, OwnRecords
    <2>2. Justified(c, "failed", 0)
        BY <2>1 DEF Justified
    <2>3. QED  BY <1>1, <1>6, <2>2, PlainAnswer DEF Kinds
<1>7. CASE /\ batch.next = "more"
           /\ call' = [call EXCEPT ![c].pc = "listed", ![c].total = batch.total]
           /\ UNCHANGED <<mail, box, registry, note, done, moved>>
    <2> DEFINE t == call[c].total + D
               new == [call[c] EXCEPT !.pc = "listed", !.total = t]
    <2>1. batch.total = t /\ t \in Nat
        BY <1>2, <1>3, <1>7 DEF AccountEmptyBatch, Stop, Partial, More
    <2>2. call' = [call EXCEPT ![c].pc = "listed", ![c].total = t]
        BY <1>7, <2>1
    <2> HIDE DEF t
    <2>3. /\ new \in Call /\ new.pc = "listed" /\ new.req = call[c].req /\ new.to = call[c].to
          /\ new.sent = call[c].sent /\ new.held = call[c].held
          /\ new.total = t /\ new.audited = call[c].audited
        BY <1>1, <2>1 DEF Call
    <2>4. call' = [call EXCEPT ![c] = new]
        BY <1>1, <2>2 DEF Call
    <2> HIDE DEF new
    <2>5. EmptyingSoFar(c, new, done[c])
        BY <1>2, <2>1, <2>3 DEF EmptyingSoFar, t
    <2>6. CallInv(c, new, done[c], note[c])
        BY <1>1, <1>2, <2>3, <2>5 DEF CallInv, Tool
    <2>7. /\ ~ Drafting(call[c]) /\ (new.audited => registry # None)
          /\ \A i \in new.held : i \in Touched \/ (mail[i] # None /\ new.to \in mail[i].in)
        BY <1>1, <1>4, <2>3 DEF Drafting, OwnInv, AuditInv, HeldInv, Tool
    <2>8. QED  BY <1>1, <1>7, <2>3, <2>4, <2>6, <2>7, MoveKeeps
<1>8. QED  BY <1>5, <1>6, <1>7 DEF EmptyAccount

-----------------------------------------------------------------------------
(* The batches that change one kind of record.                             *)

\* What a response that acknowledges `records` makes of the call.
LEMMA RepliedEffect ==
    ASSUME Typed, NEW c \in Calls, NEW records \in SUBSET Records, Replied(c, records)
    PROVE  /\ call' \in [Calls -> Call] /\ done' \in [Calls -> SUBSET Records]
           /\ \A d \in Calls \ {c} : call'[d] = call[d] /\ done'[d] = done[d]
           /\ done'[c] = done[c] \cup records
           /\ call'[c].pc = "replied" /\ call'[c].reply = call[c].reply \cup records
           /\ call'[c].req = call[c].req /\ call'[c].to = call[c].to
           /\ call'[c].sent = call[c].sent /\ call'[c].held = call[c].held
           /\ call'[c].queried = call[c].queried /\ call'[c].total = call[c].total
           /\ call'[c].audited = call[c].audited
<1> DEFINE new == [call[c] EXCEPT !.pc = "replied", !.reply = @ \cup records]
<1>0. call[c] \in Call /\ done[c] \subseteq Records
    BY DEF Typed
<1>1. /\ new \in Call
      /\ new.pc = "replied" /\ new.reply = call[c].reply \cup records
      /\ new.req = call[c].req /\ new.to = call[c].to
      /\ new.sent = call[c].sent /\ new.held = call[c].held
      /\ new.queried = call[c].queried /\ new.total = call[c].total
      /\ new.audited = call[c].audited
    BY <1>0 DEF Call
<1>2. call' = [call EXCEPT ![c] = new]
    BY <1>0 DEF Replied, Typed, Call
<1>3. done' = [done EXCEPT ![c] = done[c] \cup records]
    BY DEF Replied
<1> HIDE DEF new
<1>4. QED  BY <1>0, <1>1, <1>2, <1>3 DEF Typed

\* Stalwart changes existing messages, or one other record, and says which.
LEMMA RepliedKeeps ==
    ASSUME ToolsInv, NEW c \in Calls, NEW records \in SUBSET Records, Replied(c, records),
           Tool(c) \notin Sending \cup {"save_draft", "set_audit_mailbox"},
           UNCHANGED <<registry, note, moved>>,
           mail' = [i \in MailIds |-> mail'[i]], box' = [b \in Boxes |-> box'[b]],
           \A b \in Boxes : RoleOf[b] = "sent" /\ b \in Live' => b \in Live,
           \A i \in MailIds \cap records : mail[i] # None,
           \A i \in MailIds : mail'[i] = mail[i]
                              \/ (i \in records /\ (mail'[i] = None \/ i \in Mails)),
           IF Tool(c) \in Emptying
           THEN /\ call[c].pc = "half" /\ records \subseteq call[c].queried
                /\ \A i \in records : mail'[i] = None
           ELSE /\ call[c].pc \in {"begun", "listed"}
                /\ Tool(c) \in OneRecord => records = {} \/ Cardinality(records) = 1
    PROVE  ToolsInv'
<1>0. Typed /\ OwnInv(c) /\ call[c] \in Call /\ done[c] \subseteq Records
    BY DEF ToolsInv, Typed
<1>1. /\ call' \in [Calls -> Call] /\ done' \in [Calls -> SUBSET Records]
      /\ \A d \in Calls \ {c} : call'[d] = call[d] /\ done'[d] = done[d]
      /\ done'[c] = done[c] \cup records
      /\ call'[c].pc = "replied" /\ call'[c].reply = call[c].reply \cup records
      /\ call'[c].req = call[c].req /\ call'[c].to = call[c].to
      /\ call'[c].sent = call[c].sent /\ call'[c].held = call[c].held
      /\ call'[c].queried = call[c].queried /\ call'[c].total = call[c].total
      /\ call'[c].audited = call[c].audited
    BY <1>0, RepliedEffect
<1>2. registry' = registry /\ note' = note /\ moved' = moved
    OBVIOUS
<1>3. Typed'
    BY <1>0, <1>1, <1>2 DEF Typed
<1>4. Frame(c)
    BY <1>1, <1>2 DEF Frame
<1>5. MailStep(c)
    BY <1>1 DEF MailStep
<1>6. CallInv(c, call[c], done[c], note[c]) /\ call[c].req \in Requests /\ note[c] = None
      /\ (call[c].sent # None => RoleOf[call[c].sent] = "sent")
    BY <1>0 DEF OwnInv, CallInv
<1>7. CallInv(c, call'[c], done'[c], note'[c])
    <2>1. CASE Tool(c) \in Emptying
        <3>1. /\ done[c] \subseteq MailIds /\ call[c].reply = {}
              /\ Cardinality(done[c]) = call[c].total
              /\ call[c].total \in Nat
            BY <1>0, <1>6, <2>1 DEF CallInv, EmptyingSoFar, Tool, Call
        <3>2. records \subseteq MailIds
            BY <1>0, <2>1 DEF Call
        <3>3. \A i \in done[c] : mail[i] = None
            BY <1>0, <2>1, <3>1 DEF OwnInv, GoneInv
        <3>4. done[c] \cap records = {}
            BY <3>2, <3>3
        <3>5. Cardinality(done[c] \cup records) = Cardinality(done[c]) + Cardinality(records)
            BY <1>0, <3>4, RecordCount
        <3>6. call'[c].reply = records
            BY <1>1, <3>1
        <3>7. EmptyingSoFar(c, call'[c], done'[c])
            BY <1>1, <2>1, <3>1, <3>2, <3>5, <3>6 DEF EmptyingSoFar
        <3>8. QED  BY <1>1, <1>2, <1>6, <2>1, <3>7 DEF CallInv, Tool
    <2>2. CASE Tool(c) \notin Emptying
        <3>1. done[c] = {} /\ call[c].reply = {}
            BY <1>6, <2>2 DEF CallInv, KnownSoFar, Tool
        <3>2. done'[c] = records /\ call'[c].reply = records
            BY <1>1, <3>1
        <3>3. KnownSoFar(c, call'[c], done'[c])
            BY <1>1, <2>2, <3>2 DEF KnownSoFar, Tool
        <3>4. QED  BY <1>1, <1>2, <1>6, <2>2, <3>3 DEF CallInv, Tool
    <2>3. QED  BY <2>1, <2>2
<1>8. AuditInv(c)'
    BY <1>0, <1>1, <1>2 DEF OwnInv, AuditInv
<1>9. FreshInv(c)'
    <2>1. ASSUME NEW i \in MailIds, Fresh(i) PROVE Fresh(i)'
        <3>1. i \notin records /\ mail'[i] = None
            BY <2>1 DEF Fresh
        <3>2. QED  BY <1>1, <2>1, <3>1 DEF Fresh
    <2>2. ~ Drafting(call[c])
        BY DEF Drafting, Tool
    <2>3. Fresh(Draft(c)) /\ Fresh(Note(c))
        BY <1>0, <1>6, <2>2 DEF OwnInv, FreshInv
    <2>4. QED  BY <2>1, <2>3, OwnRecords DEF FreshInv
<1>10. GoneInv(c)'
    <2>1. ASSUME Tool(c) \in Emptying, NEW i \in MailIds, i \in done'[c] PROVE mail'[i] = None
        <3>1. i \in records \/ mail[i] = None
            BY <1>0, <1>1, <2>1 DEF OwnInv, GoneInv
        <3>2. QED  BY <2>1, <3>1
    <2>2. QED  BY <1>1, <2>1 DEF GoneInv, Tool
<1>11. Touched \subseteq Touched' /\ \A i \in records : i \in Touched'
    <2>1. \A e \in Calls : done[e] \subseteq done'[e]
        BY <1>1
    <2>2. QED  BY <1>1, <1>2, <2>1 DEF Touched
<1>12. HeldInv(c)'
    <2>1. ASSUME NEW i \in call[c].held
          PROVE  i \in Touched' \/ (mail'[i] # None /\ call[c].to \in mail'[i].in)
        <3>1. i \in MailIds
            BY <1>0 DEF Call
        <3>2. i \in Touched \/ (mail[i] # None /\ call[c].to \in mail[i].in)
            BY <1>0 DEF OwnInv, HeldInv
        <3>3. QED  BY <1>11, <3>1, <3>2
    <2>2. ASSUME call[c].queried = {}, Tool(c) \in Emptying PROVE call[c].held \subseteq Touched
        BY <1>0, <2>2 DEF OwnInv, HeldInv
    <2>3. QED  BY <1>1, <1>11, <2>1, <2>2 DEF HeldInv, Tool
<1>13. CopyInv(c)'
    BY <1>1 DEF CopyInv, Tool
<1>14. OwnInv(c)'
    BY <1>7, <1>8, <1>9, <1>10, <1>12, <1>13 DEF OwnInv
<1>15. QED  BY <1>3, <1>4, <1>5, <1>14, StepKeeps

\* Email/set with updates.
LEMMA EmailSetKeeps ==
    ASSUME ToolsInv, NEW c \in Calls, NEW p, EmailSet(c, p),
           call[c].pc \in {"begun", "listed"},
           Tool(c) \notin Sending \cup Emptying \cup {"save_draft", "set_audit_mailbox"},
           Tool(c) \in OneRecord => Tool(c) = "update_draft"
    PROVE  ToolsInv'
<1>1. call[c].req \in Requests
    BY DEF ToolsInv, OwnInv, CallInv
<1>2. PICK ok \in SUBSET {i \in call[c].req.ids : Exists(i)} :
         /\ mail' = [i \in MailIds |-> IF i \in ok THEN Patched(mail[i], p) ELSE mail[i]]
         /\ Replied(c, ok)
    BY DEF EmailSet
<1>3. ok \subseteq Mails /\ \A i \in ok : mail[i] # None
    BY <1>1, RequestIds DEF Exists
<1>4. ok \in SUBSET Records
    BY <1>3 DEF Records, MailIds
<1>5. Tool(c) = "update_draft" => ok = {} \/ Cardinality(ok) = 1
    <2>1. SUFFICES ASSUME Tool(c) = "update_draft", ok # {} PROVE Cardinality(ok) = 1
        OBVIOUS
    <2>2. PICK m \in Mails : call[c].req.ids = {m}
        BY <1>1, <2>1, RequestIds DEF Tool
    <2>3. ok = {m}
        BY <2>1, <2>2
    <2>4. QED  BY <2>3, FS_Singleton
<1>6. /\ UNCHANGED <<registry, note, moved>> /\ box' = box /\ Live' = Live
      /\ box = [b \in Boxes |-> box[b]]
    BY DEF EmailSet, Live, ToolsInv, Typed
<1>7. /\ mail' = [i \in MailIds |-> mail'[i]]
      /\ \A i \in MailIds : mail'[i] = mail[i] \/ (i \in ok /\ (mail'[i] = None \/ i \in Mails))
    BY <1>2, <1>3
<1>8. /\ \A i \in MailIds \cap ok : mail[i] # None
      /\ \A b \in Boxes : RoleOf[b] = "sent" /\ b \in Live' => b \in Live
      /\ box' = [b \in Boxes |-> box'[b]]
    BY <1>3, <1>6
<1>9. IF Tool(c) \in Emptying
      THEN /\ call[c].pc = "half" /\ ok \subseteq call[c].queried
           /\ \A i \in ok : mail'[i] = None
      ELSE /\ call[c].pc \in {"begun", "listed"}
           /\ Tool(c) \in OneRecord => ok = {} \/ Cardinality(ok) = 1
    BY <1>5
<1>10. Replied(c, ok) /\ UNCHANGED <<registry, note, moved>>
       /\ Tool(c) \notin Sending \cup {"save_draft", "set_audit_mailbox"}
    BY <1>2, <1>6
<1>11. QED  BY <1>4, <1>7, <1>8, <1>9, <1>10, RepliedKeeps

\* Email/set with destroys.
LEMMA EmailDestroyKeeps ==
    ASSUME ToolsInv, NEW c \in Calls, NEW ids \in SUBSET MailIds, EmailDestroy(c, ids),
           \/ Tool(c) \in Emptying /\ call[c].pc = "half" /\ ids = call[c].queried
           \/ Tool(c) = "permanently_delete_email" /\ call[c].pc = "begun"
    PROVE  ToolsInv'
<1>1. PICK ok \in SUBSET {i \in ids : Exists(i)} :
         /\ mail' = [i \in MailIds |-> IF i \in ok THEN None ELSE mail[i]]
         /\ Replied(c, ok)
    BY DEF EmailDestroy
<1>2. ok \in SUBSET Records /\ ok \subseteq ids /\ \A i \in ok : mail[i] # None
    BY DEF Exists, Records
<1>3. /\ UNCHANGED <<registry, note, moved>> /\ box' = box /\ Live' = Live
      /\ box = [b \in Boxes |-> box[b]]
    BY DEF EmailDestroy, Live, ToolsInv, Typed
<1>4. /\ mail' = [i \in MailIds |-> mail'[i]]
      /\ \A i \in MailIds : mail'[i] = mail[i] \/ (i \in ok /\ mail'[i] = None)
      /\ \A i \in ok : mail'[i] = None
    BY <1>1
<1>5. Tool(c) \notin Sending \cup {"save_draft", "set_audit_mailbox"}
    BY DEF Sending, Attaching, Quoting, Emptying
<1>6. IF Tool(c) \in Emptying
      THEN /\ call[c].pc = "half" /\ ok \subseteq call[c].queried
           /\ \A i \in ok : mail'[i] = None
      ELSE /\ call[c].pc \in {"begun", "listed"}
           /\ Tool(c) \in OneRecord => ok = {} \/ Cardinality(ok) = 1
    BY <1>2, <1>4 DEF Emptying, OneRecord, ObjectTools
<1>7. /\ \A i \in MailIds \cap ok : mail[i] # None
      /\ \A i \in MailIds : mail'[i] = mail[i] \/ (i \in ok /\ (mail'[i] = None \/ i \in Mails))
      /\ mail' = [i \in MailIds |-> mail'[i]]
      /\ \A b \in Boxes : RoleOf[b] = "sent" /\ b \in Live' => b \in Live
      /\ box' = [b \in Boxes |-> box'[b]]
      /\ Replied(c, ok) /\ UNCHANGED <<registry, note, moved>>
    BY <1>1, <1>2, <1>3, <1>4
<1>8. QED  BY <1>2, <1>5, <1>6, <1>7, RepliedKeeps

\* Any other record that Stalwart changes, or refuses to.
LEMMA ObjectKeeps ==
    ASSUME ToolsInv, NEW c \in Calls, NEW ok \in SUBSET {Object(c)}, Replied(c, ok),
           call[c].pc = "begun", Tool(c) \in OneRecord \ {"save_draft"},
           UNCHANGED <<mail, registry, note, moved>>,
           box' = [b \in Boxes |-> box'[b]],
           \A b \in Boxes : RoleOf[b] = "sent" /\ b \in Live' => b \in Live
    PROVE  ToolsInv'
<1>1. ok \in SUBSET Records /\ ok \cap MailIds = {}
    BY OwnRecords
<1>2. ok = {} \/ Cardinality(ok) = 1
    <2>1. ok = {} \/ ok = {Object(c)}
        OBVIOUS
    <2>2. QED  BY <2>1, FS_Singleton
<1>3. mail' = mail /\ mail = [i \in MailIds |-> mail[i]]
    BY DEF ToolsInv, Typed
<1>4. Tool(c) \notin Sending \cup Emptying \cup {"save_draft", "set_audit_mailbox"}
    BY DEF Sending, Attaching, Quoting, Emptying, OneRecord, ObjectTools
<1>5. /\ \A i \in MailIds \cap ok : mail[i] # None
      /\ \A i \in MailIds : mail'[i] = mail[i] \/ (i \in ok /\ (mail'[i] = None \/ i \in Mails))
      /\ mail' = [i \in MailIds |-> mail'[i]]
      /\ UNCHANGED <<registry, note, moved>>
    BY <1>1, <1>3
<1>6. IF Tool(c) \in Emptying
      THEN /\ call[c].pc = "half" /\ ok \subseteq call[c].queried
           /\ \A i \in ok : mail'[i] = None
      ELSE /\ call[c].pc \in {"begun", "listed"}
           /\ Tool(c) \in OneRecord => ok = {} \/ Cardinality(ok) = 1
    BY <1>2, <1>4
<1>7. Tool(c) \notin Sending \cup {"save_draft", "set_audit_mailbox"}
    BY <1>4
<1>8. QED  BY <1>1, <1>5, <1>6, <1>7, RepliedKeeps

\* Identities, vacation responses and blobs: no mailbox changes.
LEMMA SameBoxKeeps ==
    ASSUME ToolsInv, NEW c \in Calls, NEW ok \in SUBSET {Object(c)}, Replied(c, ok),
           call[c].pc = "begun", Tool(c) \in OneRecord \ {"save_draft"},
           UNCHANGED <<mail, box, registry, note, moved>>
    PROVE  ToolsInv'
<1>1. box' = box /\ Live' = Live /\ box = [b \in Boxes |-> box[b]]
    BY DEF Live, ToolsInv, Typed
<1>2. QED  BY <1>1, ObjectKeeps

\* Mailbox/set never brings back a mailbox that had a role.
LEMMA MailboxSetKeeps ==
    ASSUME ToolsInv, NEW c \in Calls, NEW b \in Boxes, NEW value, MailboxSet(c, b, value),
           call[c].pc = "begun", Tool(c) \in OneRecord \ {"save_draft"},
           b \in Live \/ RoleOf[b] = None
    PROVE  ToolsInv'
<1>1. /\ box' = [box EXCEPT ![b] = value] /\ box = [x \in Boxes |-> box[x]]
      /\ UNCHANGED <<mail, registry, note, moved>> /\ Replied(c, {Object(c)})
    BY DEF MailboxSet, ToolsInv, Typed
<1>2. box' = [x \in Boxes |-> box'[x]] /\ \A x \in Boxes \ {b} : box'[x] = box[x]
    BY <1>1
<1>3. ASSUME NEW x \in Boxes, RoleOf[x] = "sent", x \in Live' PROVE x \in Live
    <2>1. x = b => b \in Live
        BY <1>3, MailAssumption
    <2>2. QED  BY <1>2, <1>3, <2>1 DEF Live
<1>4. QED  BY <1>1, <1>2, <1>3, ObjectKeeps

-----------------------------------------------------------------------------
(* The steps of a send.                                                    *)

\* A step of a send that adds `records` to what it did and what it knows.
LEMMA SendStep ==
    ASSUME ToolsInv, NEW c \in Calls, Tool(c) \in Sending \cup {"save_draft"},
           call[c].pc \in {"ready", "uploaded", "half", "filing"},
           NEW records \in SUBSET {Draft(c), Blob(c), Submission(c)},
           NEW pc \in {"uploaded", "half", "filing", "replied"},
           call' = [call EXCEPT ![c].pc = pc, ![c].reply = call[c].reply \cup records],
           done' = [done EXCEPT ![c] = done[c] \cup records],
           UNCHANGED <<box, registry, note, moved>>,
           mail' = [i \in MailIds |-> mail'[i]],
           \A i \in MailIds \ {Draft(c)} : mail'[i] = mail[i],
           Draft(c) \in done'[c] \/ mail'[Draft(c)] = mail[Draft(c)],
           call[c].pc \notin {"ready", "uploaded"} =>
               mail[Draft(c)] # None \/ mail'[Draft(c)] = mail[Draft(c)],
           pc = "uploaded" => call[c].pc = "ready" /\ Draft(c) \notin records
                              /\ mail'[Draft(c)] = mail[Draft(c)],
           KnownSoFar(c, call'[c], done'[c]),
           CopyInv(c)'
    PROVE  ToolsInv'
<1> DEFINE new == [call[c] EXCEPT !.pc = pc, !.reply = call[c].reply \cup records]
<1>0. Typed /\ OwnInv(c) /\ call[c] \in Call /\ done[c] \subseteq Records
    BY DEF ToolsInv, Typed
<1>1. records \subseteq Records
    BY OwnRecords
<1>2. /\ new \in Call /\ new.pc = pc /\ new.reply = call[c].reply \cup records
      /\ new.req = call[c].req /\ new.to = call[c].to
      /\ new.sent = call[c].sent /\ new.held = call[c].held
      /\ new.audited = call[c].audited
    BY <1>0, <1>1 DEF Call
<1>3. call' = [call EXCEPT ![c] = new]
    BY <1>0 DEF Typed, Call
<1> HIDE DEF new
<1>4. /\ call' \in [Calls -> Call] /\ call'[c] = new
      /\ done' \in [Calls -> SUBSET Records] /\ done'[c] = done[c] \cup records
      /\ \A d \in Calls \ {c} : call'[d] = call[d] /\ done'[d] = done[d]
    BY <1>0, <1>1, <1>2, <1>3 DEF Typed
<1>5. box' = box /\ registry' = registry /\ note' = note /\ moved' = moved /\ Live' = Live
    BY DEF Live
<1>6. Typed'
    BY <1>0, <1>4, <1>5 DEF Typed
<1>7. Frame(c)
    BY <1>4, <1>5 DEF Frame
<1>8. Tool(c) \notin Emptying /\ Tool(c) # "set_audit_mailbox"
    BY DEF Sending, Attaching, Quoting, Emptying
<1>9. /\ CallInv(c, call[c], done[c], note[c]) /\ call[c].req \in Requests /\ note[c] = None
      /\ (call[c].sent # None => RoleOf[call[c].sent] = "sent")
    BY <1>0 DEF OwnInv, CallInv
<1>10. call[c].pc \in {"ready", "uploaded"} => Fresh(Draft(c))
    BY <1>0 DEF OwnInv, FreshInv, Drafting
<1>11. MailStep(c)
    <2>1. \A i \in MailIds \cap records : i = Draft(c)
        BY OwnRecords
    <2>2. \A i \in MailIds :
             \/ mail'[i] = mail[i]
             \/ i \in done'[c] /\ i = Draft(c) /\ (mail[i] # None \/ Fresh(i))
        BY <1>10
    <2>3. QED  BY <1>4, <2>1, <2>2 DEF MailStep
<1>12. CallInv(c, call'[c], done'[c], note'[c])
    BY <1>2, <1>4, <1>5, <1>8, <1>9 DEF CallInv, Tool
<1>13. AuditInv(c)'
    BY <1>0, <1>2, <1>4, <1>5 DEF OwnInv, AuditInv
<1>14. FreshInv(c)'
    <2>1. Fresh(Note(c)) /\ Note(c) \in MailIds /\ Note(c) # Draft(c) /\ Note(c) \notin records
        BY <1>0, <1>9, OwnRecords DEF OwnInv, FreshInv
    <2>2. Fresh(Note(c))'
        BY <1>4, <2>1 DEF Fresh
    <2>3. pc # "uploaded" => Drafting(call'[c])
        BY <1>2, <1>4 DEF Drafting, Tool
    <2>4. pc = "uploaded" => Fresh(Draft(c))'
        BY <1>4, <1>10 DEF Fresh
    <2>5. QED  BY <2>2, <2>3, <2>4 DEF FreshInv
<1>15. GoneInv(c)'
    BY <1>2, <1>4, <1>8 DEF GoneInv, Tool
<1>16. Touched \subseteq Touched' /\ \A i \in done'[c] : i \in Touched'
    <2>1. \A e \in Calls : done[e] \subseteq done'[e]
        BY <1>4
    <2>2. QED  BY <1>4, <1>5, <2>1 DEF Touched
<1>17. HeldInv(c)'
    <2>1. ASSUME NEW i \in call[c].held
          PROVE  i \in Touched' \/ (mail'[i] # None /\ call[c].to \in mail'[i].in)
        <3>1. i \in MailIds
            BY <1>0 DEF Call
        <3>2. i \in Touched \/ (mail[i] # None /\ call[c].to \in mail[i].in)
            BY <1>0 DEF OwnInv, HeldInv
        <3>3. QED  BY <1>16, <3>1, <3>2
    <2>2. QED  BY <1>2, <1>4, <1>8, <2>1 DEF HeldInv, Tool
<1>18. OwnInv(c)'
    BY <1>12, <1>13, <1>14, <1>15, <1>17 DEF OwnInv
<1>19. QED  BY <1>6, <1>7, <1>11, <1>18, StepKeeps

\* What such a step makes of the call.
LEMMA SendEffect ==
    ASSUME Typed, NEW c \in Calls, NEW records, NEW pc,
           call' = [call EXCEPT ![c].pc = pc, ![c].reply = call[c].reply \cup records],
           done' = [done EXCEPT ![c] = done[c] \cup records]
    PROVE  /\ call'[c].pc = pc /\ call'[c].reply = call[c].reply \cup records
           /\ call'[c].req = call[c].req /\ call'[c].to = call[c].to
           /\ call'[c].sent = call[c].sent
           /\ done'[c] = done[c] \cup records
    BY DEF Typed, Call

\* A step that adds nothing is one that adds the empty set.
LEMMA NoRecords ==
    ASSUME Typed, NEW c \in Calls, NEW pc, call' = [call EXCEPT ![c].pc = pc], done' = done
    PROVE  /\ call' = [call EXCEPT ![c].pc = pc, ![c].reply = call[c].reply \cup {}]
           /\ done' = [done EXCEPT ![c] = done[c] \cup {}]
<1>1. call[c].reply \cup {} = call[c].reply /\ done[c] \cup {} = done[c]
    OBVIOUS
<1>2. call[c] = [call[c] EXCEPT !.reply = call[c].reply]
    BY DEF Typed, Call
<1>3. [call EXCEPT ![c].pc = pc] = [call EXCEPT ![c].pc = pc, ![c].reply = call[c].reply]
    BY <1>2 DEF Typed, Call
<1>4. done = [done EXCEPT ![c] = done[c]]
    BY DEF Typed
<1>5. QED  BY <1>1, <1>3, <1>4

\* upload_blob()
LEMMA UploadKeeps ==
    ASSUME ToolsInv, NEW c \in Calls, Tool(c) \in Attaching, Upload(c)
    PROVE  ToolsInv'
<1>0. Typed /\ OwnInv(c) /\ call[c].pc = "ready"
    BY DEF ToolsInv, Upload
<1>1. CASE Answer(c, "invalid", 0)
    BY <1>0, <1>1, RefusalKeeps DEF Kinds
<1>2. CASE /\ call' = [call EXCEPT ![c].pc = "uploaded", ![c].reply = {Blob(c)}]
           /\ done' = [done EXCEPT ![c] = @ \cup {Blob(c)}]
           /\ UNCHANGED <<mail, box, registry, note, moved>>
    <2>1. Tool(c) \in Sending /\ Tool(c) \notin Emptying
        BY DEF Sending, Attaching, Emptying
    <2>2. CallInv(c, call[c], done[c], note[c])
        BY <1>0 DEF OwnInv
    <2>3. done[c] = {} /\ call[c].reply = {}
        BY <1>0, <2>1, <2>2 DEF CallInv, KnownSoFar, Tool
    <2>4. call[c].reply \cup {Blob(c)} = {Blob(c)}
        BY <2>3
    <2>5. /\ call' = [call EXCEPT ![c].pc = "uploaded",
                                  ![c].reply = call[c].reply \cup {Blob(c)}]
          /\ done' = [done EXCEPT ![c] = done[c] \cup {Blob(c)}]
        BY <1>2, <2>4
    <2>6. /\ call'[c].pc = "uploaded" /\ call'[c].reply = {Blob(c)}
          /\ call'[c].req = call[c].req /\ done'[c] = {Blob(c)}
        <3>1. /\ call'[c].pc = "uploaded" /\ call'[c].reply = call[c].reply \cup {Blob(c)}
              /\ call'[c].req = call[c].req /\ call'[c].to = call[c].to
              /\ call'[c].sent = call[c].sent /\ done'[c] = done[c] \cup {Blob(c)}
            BY <1>0, <2>5, SendEffect
        <3>2. QED  BY <2>3, <3>1
    <2>7. KnownSoFar(c, call'[c], done'[c])
        BY <2>6 DEF KnownSoFar, Tool
    <2>8. CopyInv(c)'
        BY <2>6 DEF CopyInv
    <2>9. /\ mail' = mail /\ mail' = [i \in MailIds |-> mail'[i]]
          /\ Draft(c) \notin {Blob(c)}
        BY <1>0, <1>2, OwnRecords DEF Typed
    <2>10. UNCHANGED <<box, registry, note, moved>>
        BY <1>2
    <2>11. QED  BY <1>0, <2>1, <2>5, <2>7, <2>8, <2>9, <2>10, SendStep
<1>3. QED  BY <1>1, <1>2 DEF Upload

\* Email/set with create, of a sending tool or of save_draft().
LEMMA CreateDraftKeeps ==
    ASSUME ToolsInv, NEW c \in Calls, NEW from \in {"ready", "uploaded"},
           NEW next \in {"half", "replied"}, CreateDraft(c, from, next),
           IF next = "half" THEN Tool(c) \in Sending
                            ELSE Tool(c) = "save_draft" /\ from = "ready"
    PROVE  ToolsInv'
<1>0. Typed /\ OwnInv(c) /\ call[c].pc = from /\ UNCHANGED <<box, registry, note, moved>>
    BY DEF ToolsInv, CreateDraft
<1>1. /\ Tool(c) \in Sending \cup {"save_draft"} /\ Tool(c) \notin Emptying
      /\ Tool(c) # "set_audit_mailbox" /\ (next = "replied" => Tool(c) \notin Sending)
    BY DEF Sending, Attaching, Quoting, Emptying
<1>2. CallInv(c, call[c], done[c], note[c])
    BY <1>0 DEF OwnInv
<1>3. /\ call[c].reply = done[c] /\ done[c] \subseteq {Blob(c)}
      /\ next = "replied" => done[c] = {}
    BY <1>0, <1>1, <1>2 DEF CallInv, KnownSoFar, Tool
<1>4. Fresh(Draft(c))
    BY <1>0 DEF OwnInv, FreshInv, Drafting
<1>5. ASSUME NEW records \in SUBSET {Draft(c)},
             call' = [call EXCEPT ![c].pc = next, ![c].reply = call[c].reply \cup records],
             done' = [done EXCEPT ![c] = done[c] \cup records],
             mail' = [i \in MailIds |-> mail'[i]],
             \A i \in MailIds \ {Draft(c)} : mail'[i] = mail[i],
             Draft(c) \in records \/ mail'[Draft(c)] = mail[Draft(c)],
             mail'[Draft(c)] # None => IsDraft(mail'[Draft(c)], call[c])
      PROVE  ToolsInv'
    <2>1. /\ call'[c].pc = next /\ call'[c].reply = call[c].reply \cup records
          /\ call'[c].req = call[c].req /\ call'[c].to = call[c].to
          /\ call'[c].sent = call[c].sent /\ done'[c] = done[c] \cup records
        BY <1>0, <1>5, SendEffect
    <2>2. records = {} \/ records = {Draft(c)}
        BY <1>5
    <2>3. next = "replied" => done'[c] = {} \/ Cardinality(done'[c]) = 1
        <3>1. next = "replied" => done'[c] = {} \/ done'[c] = {Draft(c)}
            BY <1>3, <2>1, <2>2
        <3>2. QED  BY <3>1, FS_Singleton
    <2>4. KnownSoFar(c, call'[c], done'[c])
        BY <1>1, <1>3, <2>1, <2>2, <2>3 DEF KnownSoFar, Tool
    <2>5. CopyInv(c)'
        BY <1>1, <1>5, <2>1 DEF CopyInv, Tool, IsDraft
    <2>6. records \in SUBSET {Draft(c), Blob(c), Submission(c)}
        BY <2>2
    <2>7. Draft(c) \in done'[c] \/ mail'[Draft(c)] = mail[Draft(c)]
        BY <1>5, <2>1
    <2>8. call[c].pc \in {"ready", "uploaded"} /\ next # "uploaded"
        BY <1>0
    <2>9. QED  BY <1>0, <1>1, <1>5, <2>4, <2>5, <2>6, <2>7, <2>8, SendStep
<1>6. CASE /\ mail' = [mail EXCEPT ![Draft(c)] =
                         [in |-> {call[c].to}, kw |-> {"$draft", "$seen"}]]
           /\ done' = [done EXCEPT ![c] = @ \cup {Draft(c)}]
           /\ call' = [call EXCEPT ![c].pc = next, ![c].reply = @ \cup {Draft(c)}]
    <2>1. /\ mail' = [i \in MailIds |-> mail'[i]]
          /\ \A i \in MailIds \ {Draft(c)} : mail'[i] = mail[i]
          /\ IsDraft(mail'[Draft(c)], call[c])
        BY <1>0, <1>6, OwnRecords DEF Typed, IsDraft
    <2>2. /\ call' = [call EXCEPT ![c].pc = next, ![c].reply = call[c].reply \cup {Draft(c)}]
          /\ done' = [done EXCEPT ![c] = done[c] \cup {Draft(c)}]
        BY <1>0, <1>6 DEF Typed, Call
    <2>3. QED  BY <1>5, <2>1, <2>2
<1>7. CASE call' = [call EXCEPT ![c].pc = next] /\ UNCHANGED <<mail, done>>
    <2>1. mail' = mail /\ mail' = [i \in MailIds |-> mail'[i]] /\ done' = done
        BY <1>0, <1>7 DEF Typed
    <2>2. /\ call' = [call EXCEPT ![c].pc = next, ![c].reply = call[c].reply \cup {}]
          /\ done' = [done EXCEPT ![c] = done[c] \cup {}]
        BY <1>0, <1>7, <2>1, NoRecords
    <2>3. mail'[Draft(c)] = None
        BY <1>4, <2>1 DEF Fresh
    <2>4. {} \in SUBSET {Draft(c)} /\ (\A i \in MailIds \ {Draft(c)} : mail'[i] = mail[i])
          /\ (Draft(c) \in {} \/ mail'[Draft(c)] = mail[Draft(c)])
          /\ (mail'[Draft(c)] # None => IsDraft(mail'[Draft(c)], call[c]))
          /\ mail' = [i \in MailIds |-> mail'[i]]
        BY <2>1, <2>3
    <2>5. QED  BY <1>5, <2>2, <2>4
<1>8. QED  BY <1>6, <1>7 DEF CreateDraft

\* EmailSubmission/set
LEMMA SubmitKeeps ==
    ASSUME ToolsInv, NEW c \in Calls, Tool(c) \in Sending, Submit(c)
    PROVE  ToolsInv'
<1>0. Typed /\ OwnInv(c) /\ call[c].pc = "half" /\ UNCHANGED <<mail, box, registry, note, moved>>
    BY DEF ToolsInv, Submit
<1>1. Tool(c) \notin Emptying /\ Tool(c) \notin OneRecord /\ Tool(c) # "set_audit_mailbox"
    BY DEF Sending, Attaching, Quoting, Emptying, OneRecord, ObjectTools
<1>2. CallInv(c, call[c], done[c], note[c])
    BY <1>0 DEF OwnInv
<1>3. call[c].reply = done[c] /\ done[c] \subseteq {Draft(c), Blob(c)}
    BY <1>0, <1>1, <1>2 DEF CallInv, KnownSoFar, Tool
<1>4. /\ mail' = mail /\ mail' = [i \in MailIds |-> mail'[i]] /\ Live' = Live
    BY <1>0 DEF Typed, Live
<1>5. Submission(c) \notin {Draft(c), Blob(c)}
    BY OwnRecords
<1>6. mail[Draft(c)] # None => IsDraft(mail[Draft(c)], call[c])
    BY <1>0 DEF OwnInv, CopyInv
<1>7. CASE /\ Draft(c) \in call[c].reply
           /\ done' = [done EXCEPT ![c] = @ \cup {Submission(c)}]
           /\ call' = [call EXCEPT ![c].pc = "filing", ![c].reply = @ \cup {Submission(c)}]
    <2>1. /\ call' = [call EXCEPT ![c].pc = "filing",
                                  ![c].reply = call[c].reply \cup {Submission(c)}]
          /\ done' = [done EXCEPT ![c] = done[c] \cup {Submission(c)}]
        BY <1>0, <1>7 DEF Typed, Call
    <2>2. /\ call'[c].pc = "filing" /\ call'[c].reply = call[c].reply \cup {Submission(c)}
          /\ call'[c].req = call[c].req /\ call'[c].to = call[c].to
          /\ call'[c].sent = call[c].sent /\ done'[c] = done[c] \cup {Submission(c)}
        BY <1>0, <2>1, SendEffect
    <2>3. KnownSoFar(c, call'[c], done'[c])
        BY <1>3, <1>7, <2>2 DEF KnownSoFar, Tool
    <2>4. CopyInv(c)'
        BY <1>4, <1>6, <2>2 DEF CopyInv, Tool, IsDraft
    <2>5. QED  BY <1>0, <1>4, <2>1, <2>3, <2>4, SendStep
<1>8. CASE call' = [call EXCEPT ![c].pc = "replied"] /\ UNCHANGED done
    <2>1. /\ call' = [call EXCEPT ![c].pc = "replied", ![c].reply = call[c].reply \cup {}]
          /\ done' = [done EXCEPT ![c] = done[c] \cup {}]
        BY <1>0, <1>8, NoRecords
    <2>2. /\ call'[c].pc = "replied" /\ call'[c].reply = call[c].reply
          /\ call'[c].req = call[c].req /\ done'[c] = done[c]
        <3>1. /\ call'[c].pc = "replied" /\ call'[c].reply = call[c].reply \cup {}
              /\ call'[c].req = call[c].req /\ call'[c].to = call[c].to
              /\ call'[c].sent = call[c].sent /\ done'[c] = done[c] \cup {}
            BY <1>0, <2>1, SendEffect
        <3>2. QED  BY <3>1
    <2>3. KnownSoFar(c, call'[c], done'[c])
        BY <1>1, <1>3, <1>5, <2>2 DEF KnownSoFar, Tool
    <2>4. CopyInv(c)'
        BY <1>3, <1>5, <2>2 DEF CopyInv, Tool
    <2>5. QED  BY <1>0, <1>4, <2>1, <2>3, <2>4, SendStep
<1>9. QED  BY <1>7, <1>8 DEF Submit

\* onSuccessUpdateEmail
LEMMA FileCopyKeeps ==
    ASSUME ToolsInv, NEW c \in Calls, Tool(c) \in Sending, FileCopy(c)
    PROVE  ToolsInv'
<1>0. Typed /\ OwnInv(c) /\ call[c].pc = "filing"
      /\ UNCHANGED <<box, registry, note, done, moved>>
      /\ call' = [call EXCEPT ![c].pc = "replied"]
    BY DEF ToolsInv, FileCopy
<1>1. Tool(c) \notin Emptying /\ Tool(c) \notin OneRecord /\ Tool(c) # "set_audit_mailbox"
    BY DEF Sending, Attaching, Quoting, Emptying, OneRecord, ObjectTools
<1>2. CallInv(c, call[c], done[c], note[c])
    BY <1>0 DEF OwnInv
<1>3. /\ call[c].reply = done[c] /\ {Draft(c), Submission(c)} \subseteq done[c]
      /\ done[c] \subseteq {Draft(c), Blob(c), Submission(c)}
    BY <1>0, <1>1, <1>2 DEF CallInv, KnownSoFar, Tool
<1>4. mail[Draft(c)] # None => IsDraft(mail[Draft(c)], call[c])
    BY <1>0 DEF OwnInv, CopyInv
<1>5. /\ call' = [call EXCEPT ![c].pc = "replied", ![c].reply = call[c].reply \cup {}]
      /\ done' = [done EXCEPT ![c] = done[c] \cup {}]
    BY <1>0, NoRecords
<1>6. /\ call'[c].pc = "replied" /\ call'[c].reply = call[c].reply
      /\ call'[c].req = call[c].req /\ done'[c] = done[c]
      /\ call'[c].to = call[c].to /\ call'[c].sent = call[c].sent
    <2>1. /\ call'[c].pc = "replied" /\ call'[c].reply = call[c].reply \cup {}
          /\ call'[c].req = call[c].req /\ call'[c].to = call[c].to
          /\ call'[c].sent = call[c].sent /\ done'[c] = done[c] \cup {}
        <3>1. Typed
            BY <1>0
        <3>2. QED  BY <1>5, <3>1, SendEffect
    <2>2. QED  BY <2>1
<1>7. KnownSoFar(c, call'[c], done'[c])
    BY <1>1, <1>3, <1>6 DEF KnownSoFar, Tool
<1> DEFINE filed == Patched(mail[Draft(c)], SentPatch(c))
<1>8. /\ SentPatch(c).in = {call[c].sent} \ {None} /\ SentPatch(c).replace = FALSE
      /\ SentPatch(c).out = (IF call[c].sent = None THEN {} ELSE {call[c].to})
      /\ SentPatch(c).set = {"$seen"} /\ SentPatch(c).clear = {"$draft"}
    BY DEF SentPatch, Patch
<1>9. ASSUME mail[Draft(c)] # None PROVE IsFiled(filed, call[c])
    <2>1. mail[Draft(c)].in = {call[c].to} /\ mail[Draft(c)].kw = {"$draft", "$seen"}
        BY <1>4, <1>9 DEF IsDraft
    <2>2. /\ filed.in = (mail[Draft(c)].in \ SentPatch(c).out) \cup SentPatch(c).in
          /\ filed.kw = (mail[Draft(c)].kw \ SentPatch(c).clear) \cup SentPatch(c).set
        BY <1>8 DEF Patched
    <2> HIDE DEF filed
    <2>3. "$draft" \notin filed.kw
        BY <1>8, <2>1, <2>2
    <2>4. filed.in = {IF call[c].sent = None THEN call[c].to ELSE call[c].sent}
        BY <1>8, <2>1, <2>2
    <2>5. QED  BY <2>3, <2>4 DEF IsFiled
<1>10. mail' = IF mail[Draft(c)] # None /\ SentPatch(c).in \subseteq Live
               THEN [mail EXCEPT ![Draft(c)] = filed] ELSE mail
    BY DEF FileCopy, Exists
<1>11. call[c].sent \in Live \cup {None} => SentPatch(c).in \subseteq Live
    BY <1>8
<1> HIDE DEF filed
<1>12. /\ mail' = [i \in MailIds |-> mail'[i]]
       /\ \A i \in MailIds \ {Draft(c)} : mail'[i] = mail[i]
       /\ mail[Draft(c)] # None \/ mail'[Draft(c)] = mail[Draft(c)]
       /\ call[c].sent \in Live \cup {None} /\ mail[Draft(c)] # None =>
             mail'[Draft(c)] = filed
    BY <1>0, <1>10, <1>11, OwnRecords DEF Typed
<1>13. CopyInv(c)'
    <2>1. Live' = Live
        BY <1>0 DEF Live
    <2>2. SUFFICES ASSUME mail'[Draft(c)] # None, call[c].sent \in Live \cup {None}
                   PROVE  IsFiled(mail'[Draft(c)], call'[c])
        BY <1>6, <2>1 DEF CopyInv
    <2>3. mail'[Draft(c)] = filed /\ IsFiled(filed, call[c])
        BY <1>9, <1>12, <2>2
    <2>4. QED  BY <1>6, <2>3 DEF IsFiled
<1>14. Draft(c) \in done'[c] /\ {} \in SUBSET {Draft(c), Blob(c), Submission(c)}
    BY <1>3, <1>6
<1>15. UNCHANGED <<box, registry, note, moved>>
    BY <1>0
<1>16. QED  BY <1>0, <1>5, <1>7, <1>12, <1>13, <1>14, <1>15, SendStep

-----------------------------------------------------------------------------
(* Every tool, the audit notes and the mail clients.                       *)

\* email_set_update(), for keywords and for mailboxes the caller names.
LEMMA EmailSetUpdateKeeps ==
    ASSUME ToolsInv, NEW c \in Calls, NEW p, EmailSetUpdate(c, p),
           Tool(c) \in KeywordTools \cup TargetTools
    PROVE  ToolsInv'
<1>1. /\ Tool(c) \notin Sending \cup Emptying \cup {"save_draft", "set_audit_mailbox"}
      /\ Tool(c) \notin OneRecord
    BY DEF Sending, Attaching, Quoting, Emptying, OneRecord, ObjectTools,
           KeywordTools, TargetTools
<1>2. CASE call[c].pc = "begun" /\ Answer(c, "invalid", 0)
    BY <1>2, RefusalKeeps DEF Kinds
<1>3. CASE call[c].pc = "begun" /\ EmailSet(c, p)
    BY <1>1, <1>3, EmailSetKeeps
<1>4. CASE AnswerCount(c)
    BY <1>1, <1>4, CountKeeps
<1>5. QED  BY <1>2, <1>3, <1>4 DEF EmailSetUpdate

\* replace_mailboxes(), for the tools that found their mailbox by role.
LEMMA ReplaceMailboxesKeeps ==
    ASSUME ToolsInv, NEW c \in Calls, ReplaceMailboxes(c),
           Tool(c) \in {"delete_email", "mark_as_spam", "mark_as_not_spam"}
    PROVE  ToolsInv'
<1>1. /\ Tool(c) \notin Sending \cup Emptying \cup {"save_draft", "set_audit_mailbox"}
      /\ Tool(c) \notin OneRecord
    BY DEF Sending, Attaching, Quoting, Emptying, OneRecord, ObjectTools
<1>2. CASE call[c].pc = "listed" /\ EmailSet(c, MoveInto(call[c].to))
    BY <1>1, <1>2, EmailSetKeeps
<1>3. CASE AnswerCount(c)
    BY <1>1, <1>3, CountKeeps
<1>4. QED  BY <1>2, <1>3 DEF ReplaceMailboxes

\* The tools that flag and move messages.
LEMMA FlagToolsKeep ==
    ASSUME ToolsInv, NEW c \in Calls, FlagTools(c)
    PROVE  ToolsInv'
<1>1. CASE MarkRead(c) \/ MarkUnread(c) \/ SetFlag(c) \/ UnsetFlag(c)
           \/ SetKeywordTool(c) \/ UnsetKeywordTool(c) \/ MoveToMailbox(c) \/ CopyToMailbox(c)
    <2>1. Tool(c) \in KeywordTools \cup TargetTools /\ \E p : EmailSetUpdate(c, p)
        BY <1>1 DEF MarkRead, MarkUnread, SetFlag, UnsetFlag, SetKeywordTool,
                    UnsetKeywordTool, MoveToMailbox, CopyToMailbox, KeywordTools, TargetTools
    <2>2. QED  BY <2>1, EmailSetUpdateKeeps
<1>2. CASE DeleteEmail(c) \/ MarkAsSpam(c) \/ MarkAsNotSpam(c)
    BY <1>2, ReplaceMailboxesKeeps DEF DeleteEmail, MarkAsSpam, MarkAsNotSpam
<1>3. QED  BY <1>1, <1>2 DEF FlagTools

\* The batch of a sending tool.
LEMMA SendBatchKeeps ==
    ASSUME ToolsInv, NEW c \in Calls, NEW ready \in {"ready", "uploaded"},
           SendBatch(c, ready), Tool(c) \in Sending
    PROVE  ToolsInv'
    BY CreateDraftKeeps, SubmitKeeps, FileCopyKeeps, SendAnswerKeeps DEF SendBatch

\* update_draft()
LEMMA UpdateDraftKeeps ==
    ASSUME ToolsInv, NEW c \in Calls, UpdateDraft(c)
    PROVE  ToolsInv'
<1>1. /\ Tool(c) = "update_draft" /\ Tool(c) \in OneRecord
      /\ Tool(c) \notin Sending \cup Emptying \cup {"save_draft", "set_audit_mailbox"}
    BY DEF UpdateDraft, Sending, Attaching, Quoting, Emptying, OneRecord
<1>2. CASE call[c].pc = "begun" /\ Answer(c, "invalid", 0)
    BY <1>2, RefusalKeeps DEF Kinds
<1>3. CASE call[c].pc = "begun" /\ EmailSet(c, Patch)
    BY <1>1, <1>3, EmailSetKeeps
<1>4. CASE AnswerOne(c, "invalid")
    BY <1>1, <1>4, OneKeeps
<1>5. QED  BY <1>2, <1>3, <1>4 DEF UpdateDraft

\* upload_blob_from_url()
LEMMA UploadBlobKeeps ==
    ASSUME ToolsInv, NEW c \in Calls, UploadBlobFromUrl(c)
    PROVE  ToolsInv'
<1>1. Tool(c) \in OneRecord \ {"save_draft"}
    BY DEF UploadBlobFromUrl, OneRecord, ObjectTools
<1>2. CASE call[c].pc = "begun" /\ Answer(c, "invalid", 0)
    BY <1>2, RefusalKeeps DEF Kinds
<1>3. CASE /\ call[c].pc = "begun" /\ Replied(c, {Object(c)})
           /\ UNCHANGED <<mail, box, registry, note, moved>>
    BY <1>1, <1>3, SameBoxKeeps
<1>4. CASE AnswerOne(c, "failed")
    BY <1>1, <1>4, OneKeeps
<1>5. QED  BY <1>2, <1>3, <1>4 DEF UploadBlobFromUrl

\* The tools that compose and send.
LEMMA ComposeToolsKeep ==
    ASSUME ToolsInv, NEW c \in Calls, ComposeTools(c)
    PROVE  ToolsInv'
<1>1. CASE SendEmail(c) \/ ReplyEmail(c) \/ ForwardEmail(c)
    <2>1. Tool(c) \in Sending
        BY <1>1 DEF SendEmail, ReplyEmail, ForwardEmail, Sending, Quoting
    <2>2. Compose(c) \/ SendBatch(c, "ready")
        BY <1>1 DEF SendEmail, ReplyEmail, ForwardEmail
    <2>3. QED  BY <2>1, <2>2, ComposeKeeps, SendBatchKeeps
<1>2. CASE SendEmailWithAttachments(c) \/ SendEmailWithUrlAttachment(c)
    <2>1. Tool(c) \in Attaching /\ Tool(c) \in Sending
        BY <1>2 DEF SendEmailWithAttachments, SendEmailWithUrlAttachment, Attaching, Sending
    <2>2. Compose(c) \/ Upload(c) \/ CreateDraft(c, "ready", "half") \/ SendBatch(c, "uploaded")
        BY <1>2 DEF SendEmailWithAttachments, SendEmailWithUrlAttachment
    <2>3. QED  BY <2>1, <2>2, ComposeKeeps, UploadKeeps, CreateDraftKeeps, SendBatchKeeps
<1>3. CASE SaveDraft(c)
    <2>1. Tool(c) = "save_draft" /\ Tool(c) \in OneRecord
        BY <1>3 DEF SaveDraft, OneRecord
    <2>2. Compose(c) \/ CreateDraft(c, "ready", "replied") \/ AnswerOne(c, "failed")
        BY <1>3 DEF SaveDraft
    <2>3. QED  BY <2>1, <2>2, ComposeKeeps, CreateDraftKeeps, OneKeeps
<1>4. QED  BY <1>1, <1>2, <1>3, UpdateDraftKeeps, UploadBlobKeeps DEF ComposeTools

\* The tools that manage mailboxes.
LEMMA MailboxToolsKeep ==
    ASSUME ToolsInv, NEW c \in Calls,
           CreateMailbox(c) \/ RenameMailbox(c) \/ DeleteMailbox(c)
           \/ SubscribeMailbox(c) \/ UnsubscribeMailbox(c)
    PROVE  ToolsInv'
<1>1. /\ Tool(c) \in OneRecord \ {"save_draft"}
      /\ Tool(c) # "create_mailbox" => Tool(c) \in BoxTools
    BY DEF CreateMailbox, RenameMailbox, DeleteMailbox, SubscribeMailbox,
           UnsubscribeMailbox, OneRecord, ObjectTools, BoxTools
<1>2. CASE AnswerOne(c, "failed")
    BY <1>1, <1>2, OneKeeps
<1>3. CASE call[c].pc = "begun" /\ MailboxRefused(c)
    <2>1. Replied(c, {}) /\ {} \in SUBSET {Object(c)}
          /\ UNCHANGED <<mail, box, registry, note, moved>>
        BY <1>3 DEF MailboxRefused
    <2>2. QED  BY <1>1, <1>3, <2>1, SameBoxKeeps
<1>4. CASE /\ call[c].pc = "begun"
           /\ \E b \in Boxes : \E value : MailboxSet(c, b, value) /\ (b \in Live \/ RoleOf[b] = None)
    BY <1>1, <1>4, MailboxSetKeeps
<1>5. ASSUME call[c].pc = "begun", Tool(c) \in BoxTools PROVE call[c].req.box \in Boxes
    <2>1. call[c].req \in Requests
        BY <1>5 DEF ToolsInv, OwnInv, CallInv
    <2>2. QED  BY <1>5, <2>1, RequestIds DEF Tool
<1>6. CASE CreateMailbox(c)
    BY <1>2, <1>3, <1>4, <1>6 DEF CreateMailbox
<1>7. ASSUME NEW field, NEW value, MailboxUpdate(c, field, value), Tool(c) # "create_mailbox"
      PROVE  ToolsInv'
    BY <1>1, <1>2, <1>3, <1>4, <1>5, <1>7 DEF MailboxUpdate
<1>8. CASE RenameMailbox(c) \/ SubscribeMailbox(c) \/ UnsubscribeMailbox(c)
    BY <1>7, <1>8 DEF RenameMailbox, SubscribeMailbox, UnsubscribeMailbox
<1>9. CASE DeleteMailbox(c)
    BY <1>1, <1>2, <1>3, <1>4, <1>5, <1>9 DEF DeleteMailbox
<1>10. QED  BY <1>6, <1>8, <1>9

\* Deletion, emptying, mailboxes, identity, vacation and audit mailbox.
LEMMA AccountToolsKeep ==
    ASSUME ToolsInv, NEW c \in Calls, AccountTools(c)
    PROVE  ToolsInv'
<1>1. CASE PermanentlyDeleteEmail(c)
    <2>1. /\ Tool(c) = "permanently_delete_email"
          /\ Tool(c) \notin Sending \cup Emptying \cup {"set_audit_mailbox"}
        BY <1>1 DEF PermanentlyDeleteEmail, Sending, Attaching, Quoting, Emptying
    <2>2. CASE call[c].pc = "begun" /\ EmailDestroy(c, call[c].req.ids)
        <3>1. call[c].req \in Requests
            BY <2>2 DEF ToolsInv, OwnInv, CallInv
        <3>2. call[c].req.ids \in SUBSET MailIds
            BY <3>1, RequestIds DEF MailIds
        <3>3. QED  BY <2>1, <2>2, <3>2, EmailDestroyKeeps
    <2>3. CASE AnswerCount(c)
        BY <2>1, <2>3, CountKeeps
    <2>4. QED  BY <1>1, <2>2, <2>3 DEF PermanentlyDeleteEmail
<1>2. CASE EmptyTrash(c) \/ EmptySpam(c)
    <2>1. Tool(c) \in Emptying /\ EmptyMailbox(c)
        BY <1>2 DEF EmptyTrash, EmptySpam, Emptying
    <2>2. CASE EmptyDestroy(c)
        <3>1. call[c].queried \in SUBSET MailIds
            BY DEF ToolsInv, Typed, Call
        <3>2. QED  BY <2>1, <2>2, <3>1, EmailDestroyKeeps DEF EmptyDestroy
    <2>3. QED  BY <2>1, <2>2, EmptyQueryKeeps, EmptyAccountKeeps DEF EmptyMailbox
<1>3. CASE CreateIdentity(c) \/ SetVacationResponse(c)
    <2>1. Tool(c) \in OneRecord \ {"save_draft"} /\ (CreateObject(c) \/ AnswerOne(c, "invalid"))
        BY <1>3 DEF CreateIdentity, SetVacationResponse, OneRecord, ObjectTools
    <2>2. CASE CreateObject(c)
        <3>1. PICK ok \in SUBSET {Object(c)} : Replied(c, ok)
            BY <2>2 DEF CreateObject
        <3>2. QED  BY <2>1, <2>2, <3>1, SameBoxKeeps DEF CreateObject
    <2>3. QED  BY <2>1, <2>2, OneKeeps
<1>4. QED  BY <1>1, <1>2, <1>3, MailboxToolsKeep, SetAuditKeeps DEF AccountTools

\* A call's next step, whatever its tool.
LEMMA ProceedKeeps ==
    ASSUME ToolsInv, NEW c \in Calls, Proceed(c)
    PROVE  ToolsInv'
    BY RejectedKeeps, FailsKeeps, ListKeeps, FlagToolsKeep, ComposeToolsKeep,
       AccountToolsKeep DEF Proceed

\* emit_audit_message()
LEMMA EmitKeeps ==
    ASSUME ToolsInv, NEW c \in Calls, EmitAuditMessage(c)
    PROVE  ToolsInv'
<1>0. /\ Typed /\ OwnInv(c) /\ note[c] # None /\ note[c].pc = "spawned"
      /\ call' = call /\ done' = done /\ box' = box /\ registry' = registry /\ moved' = moved
      /\ Live' = Live /\ Touched' = Touched
    BY DEF ToolsInv, EmitAuditMessage, Live, Touched
<1>1. Fresh(Note(c)) /\ Note(c) \in MailIds /\ Draft(c) \in MailIds /\ Draft(c) # Note(c)
    BY <1>0, OwnRecords DEF OwnInv, FreshInv
<1>2. /\ mail' = [i \in MailIds |-> mail'[i]]
      /\ \A i \in MailIds \ {Note(c)} : mail'[i] = mail[i]
    BY <1>0, <1>1 DEF EmitAuditMessage, Typed
<1>3. PICK v \in {"written", "dropped"} : note' = [note EXCEPT ![c].pc = v]
    BY DEF EmitAuditMessage
<1>4. /\ note' \in [Calls -> Notes \cup {None}] /\ note'[c] # None /\ note'[c].pc # "spawned"
      /\ \A d \in Calls \ {c} : note'[d] = note[d]
    <2> DEFINE new == [note[c] EXCEPT !.pc = v]
    <2>1. note[c] \in Notes
        BY <1>0 DEF Typed
    <2>2. new \in Notes /\ new.pc = v
        BY <2>1 DEF Notes
    <2>3. new # None
        BY <2>2, MailAssumption DEF Notes
    <2>4. note' = [note EXCEPT ![c] = new]
        BY <1>3
    <2> HIDE DEF new
    <2>5. QED  BY <1>0, <2>2, <2>3, <2>4 DEF Typed
<1>5. Typed' /\ Frame(c)
    BY <1>0, <1>2, <1>4 DEF Typed, Frame
<1>6. MailStep(c)
    BY <1>0, <1>1, <1>2 DEF MailStep
<1>7. CallInv(c, call'[c], done'[c], note'[c])
    BY <1>0, <1>4 DEF OwnInv, CallInv, Noted
<1>8. AuditInv(c)' /\ FreshInv(c)'
    <2>1. ~ Drafting(call[c]) => Fresh(Draft(c))
        BY <1>0 DEF OwnInv, FreshInv
    <2>2. QED  BY <1>0, <1>1, <1>2, <1>4, <2>1 DEF OwnInv, AuditInv, FreshInv, Fresh
<1>9. GoneInv(c)'
    <2>1. Note(c) \notin done[c]
        BY <1>1 DEF Fresh
    <2>2. QED  BY <1>0, <1>2, <2>1 DEF OwnInv, GoneInv, Tool
<1>10. HeldInv(c)'
    <2>1. ASSUME NEW i \in call[c].held
          PROVE  i \in Touched \/ (mail'[i] # None /\ call[c].to \in mail'[i].in)
        <3>1. i \in MailIds
            BY <1>0 DEF Typed, Call
        <3>2. i \in Touched \/ (mail[i] # None /\ call[c].to \in mail[i].in)
            BY <1>0 DEF OwnInv, HeldInv
        <3>3. QED  BY <1>1, <1>2, <3>1, <3>2 DEF Fresh
    <2>2. QED  BY <1>0, <2>1 DEF OwnInv, HeldInv, Tool
<1>11. CopyInv(c)'
    BY <1>0, <1>1, <1>2 DEF OwnInv, CopyInv, Tool
<1>12. OwnInv(c)'
    BY <1>7, <1>8, <1>9, <1>10, <1>11 DEF OwnInv
<1>13. QED  BY <1>5, <1>6, <1>12, StepKeeps

\* Mail arrives, or another client of the user moves it.
LEMMA ClientKeeps ==
    ASSUME ToolsInv, NEW m \in Mails, Deliver(m) \/ Rescue(m)
    PROVE  ToolsInv'
<1>0. /\ Typed /\ call' = call /\ done' = done /\ box' = box /\ registry' = registry
      /\ note' = note /\ Live' = Live /\ moved \subseteq moved'
    BY DEF ToolsInv, Deliver, Rescue, Live
<1>1. m \in MailIds /\ \A c \in Calls : Draft(c) # m /\ Note(c) # m
    BY OwnRecords DEF MailIds
<1>2. /\ mail' = [i \in MailIds |-> mail'[i]]
      /\ \A i \in MailIds \ {m} : mail'[i] = mail[i]
    BY <1>0, <1>1 DEF Deliver, Rescue, Typed
<1>3. \/ mail[m] = None /\ \A c \in Calls : m \notin done[c]
      \/ mail[m] # None /\ m \in moved'
    BY DEF Deliver, Rescue, Exists
<1>4. Typed'
    BY <1>0, <1>2 DEF Typed
<1>5. Touched \subseteq Touched' /\ moved' \subseteq Touched'
    BY <1>0 DEF Touched
<1>6. ASSUME NEW c \in Calls PROVE OwnInv(c)'
    <2>0. OwnInv(c) /\ call[c] \in Call
        BY DEF ToolsInv, Typed
    <2>1. CallInv(c, call'[c], done'[c], note'[c]) /\ AuditInv(c)'
        BY <1>0, <2>0 DEF OwnInv, AuditInv
    <2>2. FreshInv(c)'
        <3>1. Draft(c) \in MailIds /\ Note(c) \in MailIds
            BY OwnRecords
        <3>2. QED  BY <1>0, <1>1, <1>2, <2>0, <3>1 DEF OwnInv, FreshInv, Fresh
    <2>3. GoneInv(c)'
        BY <1>0, <1>2, <1>3, <2>0 DEF OwnInv, GoneInv, Tool
    <2>4. HeldInv(c)'
        <3>1. ASSUME NEW i \in call[c].held
              PROVE  i \in Touched' \/ (mail'[i] # None /\ call[c].to \in mail'[i].in)
            <4>1. i \in MailIds
                BY <2>0 DEF Call
            <4>2. i \in Touched \/ (mail[i] # None /\ call[c].to \in mail[i].in)
                BY <2>0 DEF OwnInv, HeldInv
            <4>3. QED  BY <1>2, <1>3, <1>5, <4>1, <4>2
        <3>2. QED  BY <1>0, <1>5, <2>0, <3>1 DEF OwnInv, HeldInv, Tool
    <2>5. CopyInv(c)'
        <3>1. mail'[Draft(c)] = mail[Draft(c)]
            BY <1>1, <1>2, OwnRecords
        <3>2. QED  BY <1>0, <2>0, <3>1 DEF OwnInv, CopyInv, Tool
    <2>6. QED  BY <2>1, <2>2, <2>3, <2>4, <2>5 DEF OwnInv
<1>7. QED  BY <1>4, <1>6 DEF ToolsInv

-----------------------------------------------------------------------------

\* The invariant holds before any call.
LEMMA InitTools == Init => ToolsInv
<1>1. SUFFICES ASSUME Init PROVE ToolsInv
    OBVIOUS
<1>2. /\ Idle \in Call /\ Idle.pc = "idle" /\ Idle.sent = None /\ Idle.held = {}
      /\ Idle.audited = FALSE
    BY DEF Idle, Call
<1>3. Typed
    BY <1>1, <1>2 DEF Init, Typed
<1>4. PICK here \in InTrash : \A i \in MailIds : i \notin here => mail[i] = None
    BY <1>1 DEF Init
<1>5. here \subseteq Mails
    BY MailAssumption
<1>6. ASSUME NEW c \in Calls PROVE OwnInv(c)
    <2>1. call[c] = Idle /\ done[c] = {} /\ note[c] = None
        BY <1>1 DEF Init
    <2>2. mail[Draft(c)] = None /\ mail[Note(c)] = None
        BY <1>4, <1>5, OwnRecords
    <2>3. \A d \in Calls : done[d] = {}
        BY <1>1 DEF Init
    <2>4. CallInv(c, call[c], done[c], note[c])
        BY <1>2, <2>1 DEF CallInv
    <2>5. FreshInv(c)
        BY <2>2, <2>3 DEF FreshInv, Fresh
    <2>6. AuditInv(c) /\ GoneInv(c) /\ HeldInv(c) /\ CopyInv(c)
        BY <1>2, <2>1 DEF AuditInv, GoneInv, HeldInv, CopyInv
    <2>7. QED  BY <2>4, <2>5, <2>6 DEF OwnInv
<1>7. QED  BY <1>3, <1>6 DEF ToolsInv

\* Every step keeps the invariant.
LEMMA NextTools == ToolsInv /\ [Next]_vars => ToolsInv'
<1>1. SUFFICES ASSUME ToolsInv, [Next]_vars PROVE ToolsInv'
    OBVIOUS
<1>2. CASE UNCHANGED vars
    <2>1. /\ mail' = mail /\ box' = box /\ registry' = registry /\ call' = call
          /\ note' = note /\ done' = done /\ moved' = moved
          /\ Live' = Live /\ Touched' = Touched
        BY <1>2 DEF vars, Live, Touched
    <2>2. Typed'
        BY <1>1, <2>1 DEF ToolsInv, Typed
    <2>3. ASSUME NEW c \in Calls PROVE OwnInv(c)'
        <3>1. OwnInv(c)
            BY <1>1 DEF ToolsInv
        <3>2. CallInv(c, call[c], done[c], note[c])' /\ AuditInv(c)' /\ GoneInv(c)'
            BY <2>1, <3>1 DEF OwnInv, AuditInv, GoneInv, Tool
        <3>3. FreshInv(c)'
            BY <2>1, <3>1 DEF OwnInv, FreshInv, Fresh
        <3>4. HeldInv(c)' /\ CopyInv(c)'
            BY <2>1, <3>1 DEF OwnInv, HeldInv, CopyInv, Tool
        <3>5. QED  BY <3>2, <3>3, <3>4 DEF OwnInv
    <2>4. QED  BY <2>2, <2>3 DEF ToolsInv
<1>3. CASE Next
    BY <1>1, <1>3, BeginKeeps, ProceedKeeps, EmitKeeps, ClientKeeps DEF Next
<1>4. QED  BY <1>1, <1>2, <1>3

\* So it holds always.
LEMMA ToolsInvHolds == Spec => []ToolsInv
    BY InitTools, NextTools, PTL DEF Spec

\* A tool that answers Ok reports exactly what Stalwart changed for it, over
\* all batches and whatever other calls changed in between, and a sent mail
\* was submitted.
THEOREM Truth == Spec => []AnswerIsTruthful
<1>1. ToolsInv => AnswerIsTruthful
    BY DEF ToolsInv, OwnInv, CallInv, Truthful, AnswerIsTruthful, Ok, Answered, Tool
<1>2. QED  BY <1>1, ToolsInvHolds, PTL

\* A refusal means nothing went out, and no more than a draft and a blob stay.
THEOREM RefusalsSendNothing == Spec => []RefusedMeansUnsent
<1>1. ToolsInv => RefusedMeansUnsent
    BY DEF ToolsInv, OwnInv, CallInv, Unsent, RefusedMeansUnsent, Answered, Tool
<1>2. QED  BY <1>1, ToolsInvHolds, PTL

\* A change without a note is that of a call that lost its credential between
\* two requests.
THEOREM Audited == Spec => []UnauditedOnlyByExpiry
<1>1. ToolsInv => UnauditedOnlyByExpiry
    BY DEF ToolsInv, OwnInv, CallInv, Noted, UnauditedOnlyByExpiry, Answered, Tool
<1>2. QED  BY <1>1, ToolsInvHolds, PTL

\* When empty_trash() or empty_spam() answers Ok, every message the mailbox
\* held is destroyed, unless somebody else changed it.
THEOREM Emptied == Spec => []EmptiedForSure
<1>1. ASSUME ToolsInv PROVE EmptiedForSure
    <2>1. SUFFICES ASSUME NEW c \in Calls, Ok(c), Tool(c) \in Emptying,
                          NEW i \in call[c].held, i \notin Disturbed(c)
                   PROVE  ~ Exists(i)
        BY DEF EmptiedForSure
    <2>2. OwnInv(c) /\ call[c] \in Call
        BY <1>1 DEF ToolsInv, Typed
    <2>3. i \in Touched /\ i \in MailIds
        BY <2>1, <2>2 DEF OwnInv, HeldInv, Ok, Answered, Call
    <2>4. i \in done[c]
        BY <2>1, <2>3 DEF Touched, Disturbed
    <2>5. QED  BY <2>1, <2>2, <2>3, <2>4 DEF OwnInv, GoneInv, Ok, Answered, Exists
<1>2. QED  BY <1>1, ToolsInvHolds, PTL

\* The copy of a sent mail is no longer a draft and lies in Sent alone.
THEOREM CopyFiled == Spec => []SentCopyFiled
<1>1. ToolsInv => SentCopyFiled
    BY DEF ToolsInv, OwnInv, CopyInv, IsFiled, SentCopyFiled, Ok, Answered, Exists
<1>2. QED  BY <1>1, ToolsInvHolds, PTL
=============================================================================
