------------------------------ MODULE MailTools ------------------------------
(***************************************************************************)
(* The write tools of the MCP server (src/mcp.rs, src/mcp/*.rs) and the    *)
(* audit notes they leave (src/audit_mailbox.rs), over one mail account on *)
(* Stalwart.                                                               *)
(*                                                                         *)
(* Every tool has one shape: rate limit, parameter checks, lookups, one    *)
(* JMAP batch (a loop of them for the emptying tools), a reading of the    *)
(* response, and spawn_audit().  A request may be refused (401), fail, or  *)
(* be carried out and its response lost; the methods of one batch run in   *)
(* order, with other requests in between (RFC 8620, 3.10).  Two mail       *)
(* clients of the same user are the environment: they deliver and rescue.  *)
(***************************************************************************)
EXTENDS Integers, FiniteSets

CONSTANTS
    None,           \* Rust's Option::None
    Calls,          \* tool calls
    Anonymous,      \* those whose identity carries no e-mail address
    Mails,          \* ids of messages that do not come from a tool
    Boxes,          \* mailbox ids
    RoleOf,         \* the JMAP role of each mailbox, or None
    ArgBoxes,       \* mailbox ids a caller names
    IdSets,         \* `email_ids` lists a caller gives
    Uses,           \* the tools each call may be a call of
    InTrash,        \* the messages that may lie in Trash at first
    BatchLimit      \* Email/query's `limit` in empty_mailbox() (1000)

ASSUME MailAssumption ==
    /\ None \notin Calls \cup Mails \cup Boxes /\ None # "sent"
    /\ IsFiniteSet(Calls) /\ IsFiniteSet(Mails)
    /\ \A c \in Calls, kind \in {"draft", "submission", "blob", "object", "note"} :
          <<kind, c>> \notin Mails
    /\ None \notin [at: Boxes, pc: {"spawned", "written", "dropped"}, outcome: {"ok", "error"}]
    /\ Anonymous \subseteq Calls
    /\ ArgBoxes \subseteq Boxes
    /\ IdSets \subseteq SUBSET Mails
    /\ InTrash \subseteq SUBSET Mails
    /\ BatchLimit \in Nat \ {0}

VARIABLES
    mail,       \* Stalwart: id -> mailboxes and keywords, or None
    box,        \* Stalwart: mailbox id -> name and subscription, or None
    registry,   \* AuditMailboxRegistry: the user's designated mailbox, or None
    call,       \* the tool calls
    note,       \* the audit task each call spawned
    done,       \* history: the records Stalwart changed for each call
    moved       \* history: messages another mail client moved

vars == <<mail, box, registry, call, note, done, moved>>

-----------------------------------------------------------------------------

\* Records a call makes: its draft, submission, blob, other object, note.
Draft(c) == <<"draft", c>>
Submission(c) == <<"submission", c>>
Blob(c) == <<"blob", c>>
Object(c) == <<"object", c>>
Note(c) == <<"note", c>>

MailIds == Mails \cup {Draft(c) : c \in Calls} \cup {Note(c) : c \in Calls}

Keywords == {"$seen", "$draft", "$flagged"}

\* The tools, by the parameters they take.
KeywordTools == {"mark_read", "mark_unread", "set_flag", "unset_flag",
                 "set_keyword", "unset_keyword"}
TargetTools == {"move_to_mailbox", "copy_to_mailbox"}
BulkTools == {"delete_email", "permanently_delete_email",
              "mark_as_spam", "mark_as_not_spam"}
Emptying == {"empty_trash", "empty_spam"}
Attaching == {"send_email_with_attachments", "send_email_with_url_attachment"}
Quoting == {"reply_email", "forward_email"}
Sending == {"send_email"} \cup Attaching \cup Quoting
ObjectTools == {"upload_blob_from_url", "create_identity",
                "set_vacation_response", "create_mailbox"}
BoxTools == {"rename_mailbox", "delete_mailbox", "subscribe_mailbox",
             "unsubscribe_mailbox", "set_audit_mailbox"}

Requests ==
    [tool: KeywordTools \cup BulkTools, ids: IdSets, box: {None}]
    \cup [tool: TargetTools, ids: IdSets, box: ArgBoxes]
    \cup [tool: Quoting \cup {"update_draft"}, ids: {{m} : m \in Mails}, box: {None}]
    \cup [tool: Emptying \cup {"send_email", "save_draft"} \cup Attaching
                 \cup ObjectTools, ids: {{}}, box: {None}]
    \cup [tool: BoxTools, ids: {{}}, box: ArgBoxes]

\* The tools that look a mailbox up by its role before they act.
RoleUsers ==
    [trash  |-> {"delete_email", "empty_trash"},
     junk   |-> {"mark_as_spam", "empty_spam"},
     inbox  |-> {"mark_as_not_spam"},
     drafts |-> Sending \cup {"save_draft"}]

\* How a call ends: "invalid" is invalid_params, "failed" an internal error
\* that explains a response read in full, "error" one for a request or method
\* that failed, after which nobody knows.
Kinds == {"ok", "limited", "invalid", "failed", "error", "expired"}

\* A call: its step and request; the mailbox and the Sent mailbox it found by
\* role; the ids of its last Email/query, the records its last response
\* acknowledges and empty_mailbox()'s total; its answer.  `held` (what `to` held
\* when it was listed) and `audited` (a mailbox was designated at Begin) are
\* history.
Idle == [pc |-> "idle", req |-> None, to |-> None, sent |-> None,
         queried |-> {}, reply |-> {}, total |-> 0, kind |-> None, count |-> 0,
         held |-> {}, audited |-> FALSE]

\* Mailboxes with a role exist; some messages lie in Trash, others are still
\* to be delivered.
Init ==
    /\ \E here \in InTrash, b \in {b \in Boxes : RoleOf[b] = "trash"} :
          mail = [i \in MailIds |-> IF i \in here THEN [in |-> {b}, kw |-> {}]
                                                  ELSE None]
    /\ box = [b \in Boxes |-> IF RoleOf[b] = None THEN None
                              ELSE [name |-> "old", subscribed |-> TRUE]]
    /\ registry = None
    /\ call = [c \in Calls |-> Idle]
    /\ note = [c \in Calls |-> None]
    /\ done = [c \in Calls |-> {}]
    /\ moved = {}

-----------------------------------------------------------------------------

Tool(c) == call[c].req.tool
Exists(i) == mail[i] # None
Live == {b \in Boxes : box[b] # None}
Contents(b) == {i \in MailIds : Exists(i) /\ b \in mail[i].in}

\* Mutant: no note for a call that ends in any error.
SkipsErrors(kind) == kind # "ok"

\* spawn_audit(): the answers that get no note.
SkipsNote(kind) == kind \in {"limited", "expired"}

\* The result of a tool, and spawn_audit() with the mailbox designated by then.
Finish(c, kind, count, designated) ==
    /\ call' = [call EXCEPT ![c].pc = "answered",
                            ![c].kind = kind, ![c].count = count,
                            ![c].queried = {}, ![c].reply = {}, ![c].total = 0]
    /\ note' = [note EXCEPT ![c] =
          IF SkipsNote(kind) \/ designated = None \/ c \in Anonymous THEN None
          ELSE [at |-> designated, pc |-> "spawned",
                outcome |-> IF kind = "ok" THEN "ok" ELSE "error"]]

\* A step of call c that answers and changes nothing else.
Answer(c, kind, count) ==
    Finish(c, kind, count, registry) /\ UNCHANGED <<mail, box, registry, done, moved>>

\* A call arrives.
Begin(c) ==
    /\ call[c].pc = "idle"
    /\ \E q \in {q \in Requests : q.tool \in Uses[c]} :
          call' = [call EXCEPT ![c].pc = "begun", ![c].req = q,
                               ![c].audited = (registry # None)]
    /\ UNCHANGED <<mail, box, registry, note, done, moved>>

\* Bulk tools refuse an empty id list before they ask Stalwart anything.
NoIds(c) == Tool(c) \in BulkTools /\ call[c].req.ids = {}

\* rate_limit_check() and the parameter checks made before any request: an
\* empty `to`, an implausible address, a URL that may not be fetched.
Rejected(c) ==
    /\ call[c].pc = "begun"
    /\ \/ Answer(c, "limited", 0)
       \/ /\ \/ NoIds(c)
             \/ Tool(c) \in {"send_email", "forward_email", "create_identity",
                             "upload_blob_from_url"} \cup Attaching
          /\ Answer(c, "invalid", 0)

\* Every request to Stalwart may be refused or fail before it is carried out,
\* meet a method error between two methods of a batch ("invalid" for
\* map_jmap_err()'s notFound and invalidArguments), or lose its response.
Fails(c) ==
    \/ /\ call[c].pc \in {"begun", "listed", "ready", "uploaded"}
       /\ ~ NoIds(c)
       /\ \E kind \in {"expired", "invalid", "error"} : Answer(c, kind, 0)
    \/ /\ call[c].pc = "half"
       /\ \E kind \in {"invalid", "error"} : Answer(c, kind, 0)
    \/ call[c].pc \in {"filing", "replied"} /\ Answer(c, "error", 0)

\* role_mailbox() over what all_mailboxes() returned.
RoleMailbox(role) ==
    IF \E b \in Live : RoleOf[b] = role
    THEN CHOOSE b \in Live : RoleOf[b] = role ELSE None

\* all_mailboxes() and the lookups by role.
ListMailboxes(c) ==
    /\ call[c].pc = "begun" /\ ~ NoIds(c)
    /\ \E role \in DOMAIN RoleUsers :
          /\ Tool(c) \in RoleUsers[role]
          /\ IF RoleMailbox(role) = None
             THEN Answer(c, IF Tool(c) \in {"mark_as_spam", "mark_as_not_spam"}
                            THEN "invalid" ELSE "failed", 0)
             ELSE /\ call' = [call EXCEPT ![c].pc = "listed",
                         ![c].to = RoleMailbox(role),
                         ![c].sent = RoleMailbox("sent"),
                         ![c].held = Contents(RoleMailbox(role))]
                  /\ UNCHANGED <<mail, box, registry, note, done, moved>>

-----------------------------------------------------------------------------
(* One Email/set or Mailbox/set of a single-batch tool.                    *)

\* Stalwart changed `records` for call c and says so in its response.
Replied(c, records) ==
    /\ call' = [call EXCEPT ![c].pc = "replied", ![c].reply = @ \cup records]
    /\ done' = [done EXCEPT ![c] = @ \cup records]

\* What a patch makes of a message: keywords set and cleared, mailboxes
\* replaced by, or joined by, `in`.
Patched(m, p) ==
    [in |-> (IF p.replace THEN {} ELSE m.in \ p.out) \cup p.in,
     kw |-> (m.kw \ p.clear) \cup p.set]

Patch == [in |-> {}, out |-> {}, replace |-> FALSE, set |-> {}, clear |-> {}]
SetKeyword(k) == [Patch EXCEPT !.set = {k}]
ClearKeyword(k) == [Patch EXCEPT !.clear = {k}]
MoveInto(b) == [Patch EXCEPT !.in = {b}, !.replace = TRUE]
AddInto(b) == [Patch EXCEPT !.in = {b}]

\* Stalwart updates the named messages that exist; it may refuse any of them,
\* and refuses all when a mailbox is gone.
EmailSet(c, p) ==
    /\ \E ok \in SUBSET {i \in call[c].req.ids : Exists(i)} :
          /\ p.in \subseteq Live \/ ok = {}
          /\ mail' = [i \in MailIds |-> IF i \in ok THEN Patched(mail[i], p)
                                                    ELSE mail[i]]
          /\ Replied(c, ok)
    /\ UNCHANGED <<box, registry, note, moved>>

\* The count of the records the response lists as updated or destroyed.
AnswerCount(c) ==
    call[c].pc = "replied" /\ Answer(c, "ok", Cardinality(call[c].reply))

\* email_set_update(): the empty list is refused only now.
EmailSetUpdate(c, p) ==
    \/ /\ call[c].pc = "begun"
       /\ IF call[c].req.ids = {} THEN Answer(c, "invalid", 0) ELSE EmailSet(c, p)
    \/ AnswerCount(c)

\* replace_mailboxes(), for the tools that found their mailbox by role.
ReplaceMailboxes(c) ==
    \/ call[c].pc = "listed" /\ EmailSet(c, MoveInto(call[c].to))
    \/ AnswerCount(c)

\* flag_keyword("flagged"); set_keyword names the keyword itself.
FlagKeyword(flag) == IF flag = "flagged" THEN "$flagged" ELSE flag

MarkRead(c) == Tool(c) = "mark_read" /\ EmailSetUpdate(c, SetKeyword("$seen"))
MarkUnread(c) == Tool(c) = "mark_unread" /\ EmailSetUpdate(c, ClearKeyword("$seen"))
SetFlag(c) ==
    Tool(c) = "set_flag" /\ EmailSetUpdate(c, SetKeyword(FlagKeyword("flagged")))
UnsetFlag(c) ==
    Tool(c) = "unset_flag" /\ EmailSetUpdate(c, ClearKeyword(FlagKeyword("flagged")))
SetKeywordTool(c) ==
    Tool(c) = "set_keyword" /\ EmailSetUpdate(c, SetKeyword("$flagged"))
UnsetKeywordTool(c) ==
    Tool(c) = "unset_keyword" /\ EmailSetUpdate(c, ClearKeyword("$flagged"))
MoveToMailbox(c) ==
    Tool(c) = "move_to_mailbox" /\ EmailSetUpdate(c, MoveInto(call[c].req.box))
CopyToMailbox(c) ==
    Tool(c) = "copy_to_mailbox" /\ EmailSetUpdate(c, AddInto(call[c].req.box))
DeleteEmail(c) == Tool(c) = "delete_email" /\ ReplaceMailboxes(c)
MarkAsSpam(c) == Tool(c) = "mark_as_spam" /\ ReplaceMailboxes(c)
MarkAsNotSpam(c) == Tool(c) = "mark_as_not_spam" /\ ReplaceMailboxes(c)

\* Stalwart destroys those of `ids` that exist; it may refuse any of them.
EmailDestroy(c, ids) ==
    /\ \E ok \in SUBSET {i \in ids : Exists(i)} :
          /\ mail' = [i \in MailIds |-> IF i \in ok THEN None ELSE mail[i]]
          /\ Replied(c, ok)
    /\ UNCHANGED <<box, registry, note, moved>>

PermanentlyDeleteEmail(c) ==
    /\ Tool(c) = "permanently_delete_email"
    /\ \/ call[c].pc = "begun" /\ ~ NoIds(c) /\ EmailDestroy(c, call[c].req.ids)
       \/ AnswerCount(c)

\* A tool that changes one record: the response either lists it or explains.
AnswerOne(c, refusal) ==
    /\ call[c].pc = "replied"
    /\ IF call[c].reply = {} THEN Answer(c, refusal, 0) ELSE Answer(c, "ok", 1)

\* update_draft(): From is resolved first, and no field at all is refused.
\* The fields it patches are not modelled.
UpdateDraft(c) ==
    /\ Tool(c) = "update_draft"
    /\ \/ call[c].pc = "begun" /\ Answer(c, "invalid", 0)
       \/ call[c].pc = "begun" /\ EmailSet(c, Patch)
       \/ AnswerOne(c, "invalid")

\* Stalwart creates the object, or refuses to.
CreateObject(c) ==
    /\ call[c].pc = "begun"
    /\ \E ok \in SUBSET {Object(c)} : Replied(c, ok)
    /\ UNCHANGED <<mail, box, registry, note, moved>>

CreateIdentity(c) ==
    Tool(c) = "create_identity" /\ (CreateObject(c) \/ AnswerOne(c, "invalid"))
SetVacationResponse(c) ==
    Tool(c) = "set_vacation_response" /\ (CreateObject(c) \/ AnswerOne(c, "invalid"))
UploadBlobFromUrl(c) ==
    /\ Tool(c) = "upload_blob_from_url"
    /\ \/ call[c].pc = "begun" /\ Answer(c, "invalid", 0)   \* fetch_capped()
       \/ /\ call[c].pc = "begun" /\ Replied(c, {Object(c)})
          /\ UNCHANGED <<mail, box, registry, note, moved>>
       \/ AnswerOne(c, "failed")

-----------------------------------------------------------------------------
(* Mailbox management.                                                     *)

\* Mailbox/set on one mailbox: Stalwart makes the change, or refuses.
MailboxSet(c, b, value) ==
    /\ Replied(c, {Object(c)})
    /\ box' = [box EXCEPT ![b] = value]
    /\ UNCHANGED <<mail, registry, note, moved>>

MailboxRefused(c) ==
    Replied(c, {}) /\ UNCHANGED <<mail, box, registry, note, moved>>

CreateMailbox(c) ==
    /\ Tool(c) = "create_mailbox"
    /\ \/ /\ call[c].pc = "begun"
          /\ \/ \E b \in {b \in Boxes \ Live : RoleOf[b] = None} :
                   MailboxSet(c, b, [name |-> "old", subscribed |-> FALSE])
             \/ MailboxRefused(c)
       \/ AnswerOne(c, "failed")

\* Mailbox/set with an update: only of a mailbox that exists.
MailboxUpdate(c, field, value) ==
    LET b == call[c].req.box IN
    \/ /\ call[c].pc = "begun"
       /\ \/ b \in Live /\ MailboxSet(c, b, [box[b] EXCEPT ![field] = value])
          \/ MailboxRefused(c)
    \/ AnswerOne(c, "failed")

RenameMailbox(c) == Tool(c) = "rename_mailbox" /\ MailboxUpdate(c, "name", "new")
SubscribeMailbox(c) ==
    Tool(c) = "subscribe_mailbox" /\ MailboxUpdate(c, "subscribed", TRUE)
UnsubscribeMailbox(c) ==
    Tool(c) = "unsubscribe_mailbox" /\ MailboxUpdate(c, "subscribed", FALSE)

\* Stalwart refuses to destroy a mailbox that still has messages.
DeleteMailbox(c) ==
    LET b == call[c].req.box IN
    /\ Tool(c) = "delete_mailbox"
    /\ \/ /\ call[c].pc = "begun"
          /\ \/ b \in Live /\ Contents(b) = {} /\ MailboxSet(c, b, None)
             \/ MailboxRefused(c)
       \/ AnswerOne(c, "failed")

\* set_audit_mailbox(): Mailbox/get, then the registry, then its own note.
SetAuditMailbox(c) ==
    LET b == call[c].req.box IN
    /\ Tool(c) = "set_audit_mailbox"
    /\ \/ /\ call[c].pc = "begun"
          /\ call' = [call EXCEPT ![c].pc = "replied", 
                        ![c].reply = IF b \in Live THEN {Object(c)} ELSE {}]
          /\ UNCHANGED <<mail, box, registry, note, done, moved>>
       \/ /\ call[c].pc = "replied" /\ call[c].reply = {}
          /\ Answer(c, "invalid", 0)
       \/ /\ call[c].pc = "replied" /\ call[c].reply # {}
          /\ registry' = b
          /\ Finish(c, "ok", 0, b)
          /\ UNCHANGED <<mail, box, done, moved>>

-----------------------------------------------------------------------------
(* empty_trash() and empty_spam(): batches of a query and a destroy.       *)

\* Email/query returns at most `limit` ids.
Page(q) == Cardinality(q) <= BatchLimit

EmptyQuery(c) ==
    LET found == Contents(call[c].to) IN
    /\ call[c].pc = "listed"
    /\ \E q \in SUBSET found :
          /\ Page(q)
          /\ q = {} => found = {}
          /\ call' = [call EXCEPT ![c].pc = "half", ![c].queried = q,
                                  ![c].reply = {}]
    /\ UNCHANGED <<mail, box, registry, note, done, moved>>

EmptyDestroy(c) == call[c].pc = "half" /\ EmailDestroy(c, call[c].queried)

Stop == [next |-> "stop", total |-> 0]
Partial == [next |-> "partial", total |-> 0]
More(n) == [next |-> "more", total |-> n]

\* Mutants: the total forgets earlier batches; an empty batch is no reason to
\* stop.
ForgetBatches(total, queried, destroyed) ==
    IF queried = 0 THEN Stop
    ELSE IF destroyed # queried THEN Partial ELSE More(destroyed)
NeverDone(total, queried, destroyed) ==
    IF destroyed # queried THEN Partial ELSE More(total + destroyed)

\* account_empty_batch(): stop at an empty batch, give up on one that was not
\* destroyed entirely, else go on with the new total.
AccountEmptyBatch(total, queried, destroyed) ==
    IF queried = 0 THEN Stop
    ELSE IF destroyed # queried THEN Partial ELSE More(total + destroyed)

\* Mutant: the first batch is taken for the whole mailbox.
EmptyOnce(c) ==
    /\ call[c].pc = "replied"
    /\ \/ /\ call[c].reply = call[c].queried
          /\ Answer(c, "ok", call[c].total + Cardinality(call[c].reply))
       \/ call[c].reply # call[c].queried /\ Answer(c, "failed", 0)

EmptyAccount(c) ==
    LET batch == AccountEmptyBatch(call[c].total, Cardinality(call[c].queried),
                                   Cardinality(call[c].reply)) IN
    /\ call[c].pc = "replied"
    /\ \/ batch.next = "stop" /\ Answer(c, "ok", call[c].total)
       \/ batch.next = "partial" /\ Answer(c, "failed", 0)
       \/ /\ batch.next = "more"
          /\ call' = [call EXCEPT ![c].pc = "listed", ![c].total = batch.total]
          /\ UNCHANGED <<mail, box, registry, note, done, moved>>

EmptyMailbox(c) == EmptyQuery(c) \/ EmptyDestroy(c) \/ EmptyAccount(c)

EmptyTrash(c) == Tool(c) = "empty_trash" /\ EmptyMailbox(c)
EmptySpam(c) == Tool(c) = "empty_spam" /\ EmptyMailbox(c)

-----------------------------------------------------------------------------
(* The sending tools and save_draft().                                     *)

\* get_email() for the tools that quote one, and
\* resolve_submission_identity(): both may refuse.
Compose(c) ==
    /\ call[c].pc = "listed"
    /\ \/ /\ \A i \in call[c].req.ids : Exists(i)
          /\ call' = [call EXCEPT ![c].pc = "ready"]
          /\ UNCHANGED <<mail, box, registry, note, done, moved>>
       \/ Answer(c, "invalid", 0)

\* upload_blob(), after the attachment was decoded or fetched.
Upload(c) ==
    /\ call[c].pc = "ready"
    /\ \/ /\ call' = [call EXCEPT ![c].pc = "uploaded", ![c].reply = {Blob(c)}]
          /\ done' = [done EXCEPT ![c] = @ \cup {Blob(c)}]
          /\ UNCHANGED <<mail, box, registry, note, moved>>
       \/ Answer(c, "invalid", 0)

\* Email/set with create: Stalwart files the draft, or refuses.
CreateDraft(c, from, next) ==
    /\ call[c].pc = from
    /\ \/ /\ call[c].to \in Live
          /\ mail' = [mail EXCEPT ![Draft(c)] =
                        [in |-> {call[c].to}, kw |-> {"$draft", "$seen"}]]
          /\ done' = [done EXCEPT ![c] = @ \cup {Draft(c)}]
          /\ call' = [call EXCEPT ![c].pc = next, ![c].reply = @ \cup {Draft(c)}]
       \/ call' = [call EXCEPT ![c].pc = next] /\ UNCHANGED <<mail, done>>
    /\ UNCHANGED <<box, registry, note, moved>>

\* EmailSubmission/set with create: Stalwart sends the draft, or refuses.
Submit(c) ==
    /\ call[c].pc = "half"
    /\ \/ /\ Draft(c) \in call[c].reply /\ Exists(Draft(c))
          /\ done' = [done EXCEPT ![c] = @ \cup {Submission(c)}]
          /\ call' = [call EXCEPT ![c].pc = "filing",
                                  ![c].reply = @ \cup {Submission(c)}]
       \/ call' = [call EXCEPT ![c].pc = "replied"] /\ UNCHANGED done
    /\ UNCHANGED <<mail, box, registry, note, moved>>

\* Mutant: the copy is filed in Sent and stays in Drafts.
SentPatchAdds(c) ==
    [Patch EXCEPT !.set = {"$seen"}, !.clear = {"$draft"},
                  !.in = {call[c].sent} \ {None}]

\* The patch of onSuccessUpdateEmail: out of Drafts only if there is a Sent.
SentPatch(c) ==
    [Patch EXCEPT !.set = {"$seen"}, !.clear = {"$draft"},
                  !.in = {call[c].sent} \ {None},
                  !.out = IF call[c].sent = None THEN {} ELSE {call[c].to}]

\* onSuccessUpdateEmail: Stalwart refuses it if a mailbox or the copy is gone.
FileCopy(c) ==
    /\ call[c].pc = "filing"
    /\ call' = [call EXCEPT ![c].pc = "replied"]
    /\ mail' = IF Exists(Draft(c)) /\ SentPatch(c).in \subseteq Live
               THEN [mail EXCEPT ![Draft(c)] = Patched(@, SentPatch(c))]
               ELSE mail
    /\ UNCHANGED <<box, registry, note, done, moved>>

\* Mutant: the draft is looked for in the last Email/set response, which after
\* a submission is the implicit one of onSuccessUpdateEmail.
CreatedByLast(c) ==
    LET last == IF Submission(c) \in call[c].reply THEN {} ELSE call[c].reply IN
    Submission(c) \in call[c].reply /\ Draft(c) \in last

\* created_id() for the draft and for the submission.
Created(c) == {Draft(c), Submission(c)} \subseteq call[c].reply

AnswerSend(c) ==
    /\ call[c].pc = "replied"
    /\ IF Created(c) THEN Answer(c, "ok", Cardinality(call[c].reply))
                     ELSE Answer(c, "failed", 0)

\* The batch of a sending tool, once everything it needs is at hand.
SendBatch(c, ready) ==
    \/ CreateDraft(c, ready, "half")
    \/ Submit(c)
    \/ FileCopy(c)
    \/ AnswerSend(c)

SendEmail(c) == Tool(c) = "send_email" /\ (Compose(c) \/ SendBatch(c, "ready"))
ReplyEmail(c) == Tool(c) = "reply_email" /\ (Compose(c) \/ SendBatch(c, "ready"))
ForwardEmail(c) == Tool(c) = "forward_email" /\ (Compose(c) \/ SendBatch(c, "ready"))
\* The list of attachments may be empty.
SendEmailWithAttachments(c) ==
    /\ Tool(c) = "send_email_with_attachments"
    /\ Compose(c) \/ Upload(c) \/ CreateDraft(c, "ready", "half")
          \/ SendBatch(c, "uploaded")
SendEmailWithUrlAttachment(c) ==
    /\ Tool(c) = "send_email_with_url_attachment"
    /\ Compose(c) \/ Upload(c) \/ SendBatch(c, "uploaded")
SaveDraft(c) ==
    /\ Tool(c) = "save_draft"
    /\ Compose(c) \/ CreateDraft(c, "ready", "replied") \/ AnswerOne(c, "failed")

-----------------------------------------------------------------------------

\* emit_audit_message(): the note is written, or dropped with a warning.
EmitAuditMessage(c) ==
    /\ note[c] # None
    /\ note[c].pc = "spawned"
    /\ \/ /\ note[c].at \in Live
          /\ mail' = [mail EXCEPT ![Note(c)] = [in |-> {note[c].at}, kw |-> {"$seen"}]]
          /\ note' = [note EXCEPT ![c].pc = "written"]
       \/ note' = [note EXCEPT ![c].pc = "dropped"] /\ UNCHANGED mail
    /\ UNCHANGED <<box, registry, call, done, moved>>

\* Environment: mail arrives in a mailbox with a role, once per message.
Deliver(m) ==
    /\ ~ Exists(m) /\ m \notin moved
    /\ \A c \in Calls : m \notin done[c]
    /\ \E b \in Live : /\ RoleOf[b] \in {"inbox", "junk"}
                       /\ mail' = [mail EXCEPT ![m] = [in |-> {b}, kw |-> {}]]
    /\ UNCHANGED <<box, registry, call, note, done, moved>>

\* Environment: another client of the user takes a message out of Trash or
\* Junk.
Rescue(m) ==
    /\ Exists(m) /\ m \notin moved
    /\ \E b \in mail[m].in, to \in Live :
          /\ RoleOf[b] \in {"trash", "junk"} /\ RoleOf[to] = "inbox"
          /\ mail' = [mail EXCEPT ![m].in = {to}]
    /\ moved' = moved \cup {m}
    /\ UNCHANGED <<box, registry, call, note, done>>

-----------------------------------------------------------------------------

FlagTools(c) ==
    \/ MarkRead(c) \/ MarkUnread(c) \/ SetFlag(c) \/ UnsetFlag(c)
    \/ SetKeywordTool(c) \/ UnsetKeywordTool(c)
    \/ MoveToMailbox(c) \/ CopyToMailbox(c)
    \/ DeleteEmail(c) \/ MarkAsSpam(c) \/ MarkAsNotSpam(c)

ComposeTools(c) ==
    \/ SendEmail(c) \/ ReplyEmail(c) \/ ForwardEmail(c)
    \/ SendEmailWithAttachments(c) \/ SendEmailWithUrlAttachment(c)
    \/ SaveDraft(c) \/ UpdateDraft(c) \/ UploadBlobFromUrl(c)

AccountTools(c) ==
    \/ PermanentlyDeleteEmail(c) \/ EmptyTrash(c) \/ EmptySpam(c)
    \/ CreateMailbox(c) \/ RenameMailbox(c) \/ DeleteMailbox(c)
    \/ SubscribeMailbox(c) \/ UnsubscribeMailbox(c)
    \/ CreateIdentity(c) \/ SetVacationResponse(c) \/ SetAuditMailbox(c)

\* A call that has begun takes its next step.
Proceed(c) ==
    /\ call[c].pc \notin {"idle", "answered"}
    /\ Rejected(c) \/ Fails(c) \/ ListMailboxes(c)
          \/ FlagTools(c) \/ ComposeTools(c) \/ AccountTools(c)

Next ==
    \/ \E c \in Calls : Begin(c) \/ Proceed(c) \/ EmitAuditMessage(c)
    \/ \E m \in Mails : Deliver(m) \/ Rescue(m)

Spec == Init /\ [][Next]_vars

\* A request ends within the HTTP client's timeout and a spawned task runs;
\* nobody owes a call, a delivery or a rescue.
Fairness == \A c \in Calls : WF_vars(Proceed(c)) /\ WF_vars(EmitAuditMessage(c))

FairSpec == Spec /\ Fairness

-----------------------------------------------------------------------------
(* Properties                                                              *)

Answered(c) == call[c].pc = "answered"
Ok(c) == Answered(c) /\ call[c].kind = "ok"

\* Records of call c, or messages, that somebody else changed.
Disturbed(c) == moved \cup UNION {done[d] : d \in Calls \ {c}}

\* A tool that answers Ok reports exactly what Stalwart changed for it: the
\* count is the number of records, over all batches and whatever other calls
\* changed in between, and a sent mail was submitted.
AnswerIsTruthful ==
    \A c \in Calls : Ok(c) =>
        /\ Tool(c) # "set_audit_mailbox" => call[c].count = Cardinality(done[c])
        /\ Tool(c) \in Sending => Submission(c) \in done[c]

\* "Returns only after a follow-up query confirms the mailbox is empty": when
\* empty_trash() or empty_spam() answers Ok, every message the mailbox held
\* when the call listed it is destroyed, unless somebody else changed it.
EmptiedForSure ==
    \A c \in Calls : Ok(c) /\ Tool(c) \in Emptying =>
        \A i \in call[c].held : ~ Exists(i) \/ i \in Disturbed(c)

\* A refusal means nothing went out: a call that is rate limited, refused its
\* credential, told its parameters are wrong or that a stage failed has sent
\* no mail and, unless it is an emptying, left at most a draft and blobs.
RefusedMeansUnsent ==
    \A c \in Calls :
        Answered(c) /\ call[c].kind \in {"limited", "invalid", "failed", "expired"} =>
            /\ Submission(c) \notin done[c]
            /\ Tool(c) \notin Emptying => done[c] \subseteq {Draft(c), Blob(c)}

\* A sent mail nobody else touched is no longer a draft; its copy is in Sent
\* alone, if the account had a Sent mailbox when the call listed them and
\* still has it.
SentCopyFiled ==
    \A c \in Calls :
        Ok(c) /\ Tool(c) \in Sending /\ Exists(Draft(c)) /\ call[c].sent \in Live \cup {None} =>
            /\ "$draft" \notin mail[Draft(c)].kw
            /\ mail[Draft(c)].in =
                  {IF call[c].sent = None THEN call[c].to ELSE call[c].sent}

\* If an audit mailbox was designated when a call began, a call that changed
\* anything leaves a note, except one that lost its credential between two
\* requests: an emptying after its first batch, a send after its upload.
UnauditedOnlyByExpiry ==
    \A c \in Calls \ Anonymous :
        Answered(c) /\ call[c].audited /\ done[c] # {} /\ note[c] = None =>
            call[c].kind = "expired" /\ Tool(c) \in Emptying \cup Attaching

\* "audit notes for every write this server makes" (set_audit_mailbox's
\* description): a call that created, changed or destroyed a message leaves
\* a note.
EveryWriteAudited ==
    \A c \in Calls \ Anonymous :
        Answered(c) /\ call[c].audited /\ done[c] \cap MailIds # {} =>
            note[c] # None

\* Every call that has begun is answered: the emptying loop ends although
\* other calls and clients add to the mailbox while it runs, as long as the
\* messages that arrive are finitely many.
CallsAnswered == \A c \in Calls : call[c].pc = "begun" ~> Answered(c)
=============================================================================
