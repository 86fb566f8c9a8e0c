------------------------------ MODULE ReadTools ------------------------------
(***************************************************************************)
(* The read tools of the MCP server (src/mcp.rs, src/mcp/reads.rs, the     *)
(* download of src/mcp/attachments.rs, the vacation and account reads of   *)
(* src/mcp/profile.rs) over one mail account on Stalwart.                  *)
(*                                                                         *)
(* A call reads and never writes, so one call is enough; the user's other  *)
(* mail clients deliver, move and destroy mail between its requests and    *)
(* between the methods of one batch.  Stalwart may refuse a request,       *)
(* fail it, or list what it was asked for in any order (RFC 8620, 5.1).    *)
(***************************************************************************)
EXTENDS ContentSandbox

CONSTANTS
    None,               \* Rust's Option::None
    Mails, Boxes,       \* ids of messages and mailboxes
    ArgBoxes,           \* mailbox ids a caller names, existing or not
    ReceivedAt,         \* when each message was received
    Threads, ThreadOf,  \* thread ids, and the thread of each message
    Matching,           \* the messages a full-text query finds
    Letters,            \* what each message may say
    Limits,             \* `limit` arguments
    MAX_EMAIL_LIMIT,    \* 50
    MAX_TEXT_BODY,      \* MAX_TEXT_BODY_BYTES
    DownloadMaxBytes,   \* the configured download cap
    Lexemes,            \* what texts are made of
    Texts               \* texts on which the escapes are tried

\* Any text, and what a message may consist of.
Text == Seq(Lexemes)
Addressee == [name: Text, email: Text]
Letter ==
    [from: Addressee, to: Addressee, subject: Text, ref: Text,
     text: Text \cup {None}, html: Text \cup {None}, name: Text \cup {None},
     declared: Nat \cup {None}, bytes: Nat, seen: BOOLEAN]

ASSUME ReadAssumption ==
    /\ Vocabulary \subseteq Lexemes
    /\ None \notin Mails \cup ArgBoxes \cup Nat \cup Text
    /\ IsFiniteSet(Mails) /\ IsFiniteSet(Boxes)
    /\ \A m \in Mails : Letters[m] \subseteq Letter
    /\ Texts \subseteq Text
    /\ ReceivedAt \in [Mails -> Nat]
    /\ ThreadOf \in [Mails -> Threads]
    /\ Matching \subseteq Mails
    /\ Limits \subseteq Nat
    /\ {MAX_EMAIL_LIMIT, MAX_TEXT_BODY, DownloadMaxBytes} \subseteq Nat

VARIABLES
    letter,     \* what each message says, None before it is delivered
    in,         \* Stalwart: the mailboxes of each message, {} if it is not there
    supports,   \* Stalwart: the optional methods it implements
    call        \* the tool call

vars == <<letter, in, supports, call>>

-----------------------------------------------------------------------------

Optional == {"SearchSnippet/get", "VacationResponse/get"}

\* The tools, by the parameters they take.
EmailTools == {"read_email", "get_email_headers", "list_attachments"}
SessionTools == {"whoami", "get_account_info"}

\* What a call names (a message, mailbox or thread, or nothing), the blob it
\* asks for and its limit.
Request(tools, named, blobs, limits) ==
    [tool: tools, of: named, blob: blobs, limit: limits]

Requests ==
    Request(EmailTools, Mails, {None}, {0})
    \cup Request({"download_attachment"}, Mails, Mails, {0})
    \cup Request({"list_recent_emails"}, ArgBoxes, {None}, Limits)
    \cup Request({"search_emails"}, ArgBoxes \cup {None}, {None}, Limits)
    \cup Request({"read_thread"}, Threads, {None}, Limits)
    \cup Request({"list_recent_activity"}, {None}, {None}, Limits)
    \cup Request({"get_mailbox_info"}, ArgBoxes, {None}, {0})
    \cup Request({"get_unread_summary"}, ArgBoxes \cup {None}, {None}, {0})
    \cup Request({"list_mailboxes", "get_vacation_response"} \cup SessionTools,
                 {None}, {None}, {0})

Existing == {m \in Mails : in[m] # {}}

Idle == [pc |-> "idle", req |-> None, ids |-> {}, list |-> <<>>,
         kind |-> None, items |-> <<>>, held |-> {}, lives |-> {}]

Init ==
    /\ letter = [m \in Mails |-> None]
    /\ in = [m \in Mails |-> {}]
    /\ supports \in {{}, Optional}
    /\ call = Idle

-----------------------------------------------------------------------------
(* What is made of a message.                                              *)

\* addrs(): `Name <email>`, or the address alone.
Addrs(a) == IF a.name = <<>> THEN a.email ELSE a.name \o <<" ", "<">> \o a.email \o <<">">>

\* Mutant: the parts are escaped before they are put together.
SanitizedParts(a) ==
    Addrs([name |-> Escape(a.name), email |-> Escape(a.email)])

\* sanitize_external_list() over addrs().
SanitizedAddrs(a) == Escape(Addrs(a))

\* sanitize_external_text() and sanitize_external_value() over several texts.
Sanitized(raws) == {Escape(t) : t \in raws}

\* external_texts_suspicious() and external_value_suspicious().
AnySuspicious(raws) == \E t \in raws : Suspicious(t)

Maybe(x) == IF x = None THEN {} ELSE {x}

\* A lexeme is one unit wide, a two-byte character two.
Width(text) == Len(text) + Cardinality({i \in DOMAIN text : text[i] = "wide"})

\* truncate_text_body(): cut at MAX_TEXT_BODY, or at the last boundary before it.
Truncate(text) ==
    LET fits == {n \in 0..Len(text) : Width(SubSeq(text, 1, n)) <= MAX_TEXT_BODY}
    IN SubSeq(text, 1, CHOOSE n \in fits : \A k \in fits : k <= n)

\* The part Stalwart lists first in textBody and in htmlBody: RFC 8621, 4.1.4,
\* lets the only part of a message stand in both.
TextBodyPart(l) == IF l.text # None THEN l.text ELSE l.html
HtmlBodyPart(l) == IF l.html # None THEN l.html ELSE l.text

\* extract_text_body() and extract_html_body(): the value of that part.
ExtractTextBody(l) == IF TextBodyPart(l) = None THEN <<>> ELSE TextBodyPart(l)
ExtractHtmlBody(l) == HtmlBodyPart(l)

\* A result: the texts it shows escaped, those it shows wrapped, and its flag.
Shown(m, plain, wrapped, suspicious) ==
    [id |-> m, plain |-> plain, wrapped |-> wrapped, suspicious |-> suspicious,
     html |-> None, bytes |-> 0]

EmailSummary(m) ==
    LET l == letter[m] IN
    Shown(m, {SanitizedAddrs(l.from), SanitizedAddrs(l.to)} \cup Sanitized({l.subject}),
          {}, AnySuspicious({Addrs(l.from), Addrs(l.to), l.subject}))

\* The snippet is None when there is none for this message, or it is empty.
SearchEmailHit(m, snippet) ==
    LET l == letter[m]
        verdicts == {Evaluate(Addrs(l.from), s) : s \in Maybe(snippet) \ {<<>>}}
    IN Shown(m, {SanitizedAddrs(l.from)} \cup Sanitized({l.subject}),
             {v.wrapped : v \in verdicts},
             \/ \E v \in verdicts : v.suspicious
             \/ AnySuspicious({Addrs(l.from), l.subject}))

ThreadEmail(m) ==
    LET l == letter[m]
        verdict == Evaluate(Addrs(l.from), Truncate(ExtractTextBody(l)))
    IN Shown(m, {SanitizedAddrs(l.from)} \cup Sanitized({l.subject}),
             {verdict.wrapped},
             verdict.suspicious \/ AnySuspicious({Addrs(l.from), l.subject}))

\* Mutant: the verdict on the markup is taken once it is escaped.
JudgedLate(l) ==
    LET htmls == {Escape(Truncate(h)) : h \in Maybe(ExtractHtmlBody(l))} IN
    [escaped |-> htmls, suspicious |-> AnySuspicious(htmls)]

\* read_email_html_body(): cut, judged, then escaped.
ReadEmailHtmlBody(l) ==
    LET htmls == {Truncate(h) : h \in Maybe(ExtractHtmlBody(l))} IN
    [escaped |-> Sanitized(htmls), suspicious |-> AnySuspicious(htmls)]

ReadEmailResult(m) ==
    LET l == letter[m]
        verdict == Evaluate(Addrs(l.from), Truncate(ExtractTextBody(l)))
        html == ReadEmailHtmlBody(l)
    IN [Shown(m, {SanitizedAddrs(l.from), SanitizedAddrs(l.to)}
                    \cup Sanitized({l.subject} \cup Maybe(l.name)) \cup html.escaped,
              {verdict.wrapped},
              \/ verdict.suspicious \/ html.suspicious
              \/ AnySuspicious({Addrs(l.from), Addrs(l.to), l.subject}
                                  \cup Maybe(l.name)))
        EXCEPT !.html = IF html.escaped = {} THEN None
                        ELSE CHOOSE h \in html.escaped : TRUE]

\* `ref` stands for the Message-ID, In-Reply-To and References values.
EmailHeadersResult(m) ==
    LET l == letter[m] IN
    Shown(m, {SanitizedAddrs(l.from), SanitizedAddrs(l.to)}
                \cup Sanitized({l.subject, l.ref}), {},
          AnySuspicious({Addrs(l.from), Addrs(l.to), l.subject, l.ref}))

ListAttachmentsResult(m) ==
    LET names == Maybe(letter[m].name) IN
    Shown(m, Sanitized(names), {}, AnySuspicious(names))

\* A mailbox with its counts.
MailboxSummary(b) ==
    LET inside == {m \in Mails : b \in in[m]} IN
    [id |-> b, total |-> Cardinality(inside),
     unread |-> Cardinality({m \in inside : ~ letter[m].seen})]

-----------------------------------------------------------------------------
(* The steps of a call.                                                    *)

Tool == call.req.tool

Answer(kind, items) ==
    /\ call' = [call EXCEPT !.pc = "answered", !.kind = kind, !.items = items,
                            !.ids = {}, !.list = <<>>]
    /\ UNCHANGED <<letter, in, supports>>

Begin ==
    /\ call.pc = "idle"
    /\ \E q \in Requests : call' = [call EXCEPT !.pc = "begun", !.req = q]
    /\ UNCHANGED <<letter, in, supports>>

\* rate_limit_check(): the caller is over quota.
RateLimitCheck == call.pc = "begun" /\ Answer("limited", <<>>)

\* A request or method that is refused or fails; map_jmap_err() turns the error
\* into the answer.
Fails ==
    /\ call.pc \in {"begun", "queried", "fetched", "found"}
    /\ \E kind \in {"expired", "invalid", "error"} : Answer(kind, <<>>)

Begun(tool) == call.pc = "begun" /\ Tool = tool

\* Two tools answer from the session.
Whoami == Begun("whoami") /\ Answer("ok", <<>>)
GetAccountInfo == Begun("get_account_info") /\ Answer("ok", <<>>)

\* capped_email_limit()
CappedEmailLimit(limit) == IF limit > MAX_EMAIL_LIMIT THEN MAX_EMAIL_LIMIT ELSE limit
Limit == CappedEmailLimit(call.req.limit)

\* The messages a query's filter selects.
Filtered ==
    {m \in Existing : call.req.of \in in[m] \/ call.req.of = None}
        \cap (IF Tool = "search_emails" THEN Matching ELSE Mails)

\* The best k of a set, by rank; Stalwart breaks ties as it likes.
Top(set, rank(_), k) ==
    {best \in SUBSET set :
        /\ Cardinality(best) = IF k < Cardinality(set) THEN k ELSE Cardinality(set)
        /\ \A x \in best, y \in set \ best : rank(x) >= rank(y)}

\* Email/query, sorted by receivedAt, newest first, and cut at the limit.
Page(found) == Top(found, LAMBDA m : ReceivedAt[m], Limit)

EmailQuery ==
    /\ call.pc = "begun" /\ Tool \in {"list_recent_emails", "search_emails"}
    /\ \E page \in Page(Filtered) :
          call' = [call EXCEPT !.pc = "queried", !.ids = page, !.held = Filtered]
    /\ UNCHANGED <<letter, in, supports>>

\* Thread/get: the back-reference of the Email/get fails for an unknown thread.
ThreadGet ==
    LET found == {m \in Existing : ThreadOf[m] = call.req.of} IN
    /\ Begun("read_thread")
    /\ IF found = {} THEN Answer("error", <<>>)
       ELSE /\ call' = [call EXCEPT !.pc = "queried", !.ids = found, !.held = found]
            /\ UNCHANGED <<letter, in, supports>>

\* Email/get on the ids of the method before it: those that still exist, in
\* any order.
EmailGet ==
    /\ call.pc = "queried"
    /\ \E list \in SetToSeqs(call.ids \cap Existing) :
          call' = [call EXCEPT !.pc = "fetched", !.list = list, !.lives = Existing]
    /\ UNCHANGED <<letter, in, supports>>

\* list_recent_emails(): the list as it came.
ListRecentEmails ==
    /\ call.pc = "fetched" /\ Tool = "list_recent_emails"
    /\ Answer("ok", [i \in DOMAIN call.list |-> EmailSummary(call.list[i])])

\* The greater keys first, by a stable sort: of all the arrangements of a list
\* there is one.
Sorted(list, key(_)) ==
    {[i \in DOMAIN list |-> list[p[i]]] :
        p \in {p \in Bijection(DOMAIN list, DOMAIN list) :
            \A i, j \in DOMAIN list : i < j =>
                \/ key(list[p[i]]) > key(list[p[j]])
                \/ key(list[p[i]]) = key(list[p[j]]) /\ p[i] < p[j]}}

\* truncate(limit)
Cut(list) == SubSeq(list, 1, IF Limit < Len(list) THEN Limit ELSE Len(list))

\* Mutant: the thread is cut before it is sorted.
CutThenSort(list) == Sorted(Cut(list), LAMBDA m : ReceivedAt[m])

\* sort_by_key(Reverse(receivedAt)) and truncate(limit).
NewestOf(list) == {Cut(sorted) : sorted \in Sorted(list, LAMBDA m : ReceivedAt[m])}

ReadThread ==
    /\ call.pc = "fetched" /\ Tool = "read_thread"
    /\ \E list \in NewestOf(call.list) :
          Answer("ok", [i \in DOMAIN list |-> ThreadEmail(list[i])])

\* SearchSnippet/get: Stalwart's snippets, keyed by message, for those of the
\* list it still finds; a snippet is taken from the text, else the subject.
Snippet(m) == IF letter[m].text # None THEN letter[m].text ELSE letter[m].subject

\* search_snippets_unsupported() and vacation_capability_unsupported()
Unsupported(error) == error \in {"unknownMethod", "unknownCapability"}

\* The answer of a method Stalwart may lack.
OptionalErrors(method) ==
    {"serverFail"} \cup
        (IF method \in supports THEN {} ELSE {"unknownMethod", "unknownCapability"})

Hits(found) ==
    [i \in DOMAIN call.list |->
        SearchEmailHit(call.list[i],
            IF call.list[i] \in found THEN Snippet(call.list[i]) ELSE None)]

\* search_snippets(): the messages that have one, or None if it failed.  It asks
\* nothing when there are no ids, and a method that is not implemented leaves
\* every hit without.
SearchSnippets ==
    IF call.list = <<>> THEN {{}}
    ELSE (IF "SearchSnippet/get" \in supports THEN {Existing} ELSE {})
         \cup {IF Unsupported(error) THEN {} ELSE None :
                  error \in OptionalErrors("SearchSnippet/get")}

SearchEmails ==
    /\ call.pc = "fetched" /\ Tool = "search_emails"
    /\ \E found \in SearchSnippets :
          IF found = None THEN Answer("error", <<>>) ELSE Answer("ok", Hits(found))

\* One Email/get, and what is made of the message if it is there.
OfMessage(result(_)) ==
    LET m == call.req.of IN
    IF m \in Existing THEN Answer("ok", <<result(m)>>) ELSE Answer("invalid", <<>>)

ReadEmail == Begun("read_email") /\ OfMessage(ReadEmailResult)
GetEmailHeaders == Begun("get_email_headers") /\ OfMessage(EmailHeadersResult)
ListAttachments == Begun("list_attachments") /\ OfMessage(ListAttachmentsResult)

-----------------------------------------------------------------------------
(* download_attachment(): the attachment is looked up on the message, then *)
(* its blob is fetched.  A blob is named by the message it came with.      *)

TooLarge(size) == size # None /\ size > DownloadMaxBytes

FindAttachment ==
    /\ Begun("download_attachment")
    /\ LET m == call.req.of IN
       IF \/ m \notin Existing \/ call.req.blob # m \/ letter[m].name = None
          \/ TooLarge(letter[m].declared)
       THEN Answer("invalid", <<>>)
       ELSE /\ call' = [call EXCEPT !.pc = "found"]
            /\ UNCHANGED <<letter, in, supports>>

\* Mutant: a download that announced no length is passed on.
LengthTrusted(length, bytes) == ~ TooLarge(length)

\* download_blob(): the announced length, if any, and the bytes themselves.
WithinCap(length, bytes) == ~ TooLarge(length) /\ ~ TooLarge(bytes)

DownloadBlob ==
    /\ call.pc = "found"
    /\ LET m == call.req.of  bytes == letter[call.req.blob].bytes IN
       \E length \in {None, bytes} :
          IF WithinCap(length, bytes)
          THEN Answer("ok", <<[ListAttachmentsResult(m) EXCEPT !.bytes = bytes]>>)
          ELSE Answer("invalid", <<>>)

-----------------------------------------------------------------------------
(* Mailboxes and settings.                                                 *)

\* Mailbox/get: the mailbox named, if it is there, or all of them.
MailboxGet(of) == IF of = None THEN Boxes ELSE Boxes \cap {of}

Listed == SetToSeqs({MailboxSummary(b) : b \in MailboxGet(call.req.of)})

ListMailboxes ==
    Begun("list_mailboxes") /\ \E list \in Listed : Answer("ok", list)

GetMailboxInfo ==
    /\ Begun("get_mailbox_info")
    /\ \E list \in Listed :
          IF list = <<>> THEN Answer("invalid", <<>>) ELSE Answer("ok", list)

\* The unread counts and their sum.
GetUnreadSummary ==
    /\ Begun("get_unread_summary")
    /\ \E list \in Listed :
          Answer("ok", <<[mailboxes |-> list,
              total_unread |-> FoldLeft(LAMBDA n, b : n + b.unread, 0, list)]>>)

\* list_recent_activity(): sorted by unread count, then cut.
ListRecentActivity ==
    /\ Begun("list_recent_activity")
    /\ \E list \in Listed : \E sorted \in Sorted(list, LAMBDA b : b.unread) :
          Answer("ok", Cut(sorted))

\* get_vacation_response(): an account without one has it disabled, a server
\* without the capability does not support it, anything else is an error.
GetVacationResponse ==
    /\ Begun("get_vacation_response")
    /\ \/ "VacationResponse/get" \in supports /\ Answer("ok", <<[supported |-> TRUE]>>)
       \/ \E error \in OptionalErrors("VacationResponse/get") :
             IF Unsupported(error) THEN Answer("ok", <<[supported |-> FALSE]>>)
             ELSE Answer("error", <<>>)

-----------------------------------------------------------------------------
(* The user's other mail clients, until the call is answered.              *)

Deliver(m) ==
    /\ call.pc # "answered" /\ letter[m] = None
    /\ \E l \in Letters[m], b \in Boxes :
          letter' = [letter EXCEPT ![m] = l] /\ in' = [in EXCEPT ![m] = {b}]
    /\ UNCHANGED <<supports, call>>

Move(m, boxes) ==
    /\ call.pc # "answered" /\ m \in Existing
    /\ in' = [in EXCEPT ![m] = boxes]
    /\ UNCHANGED <<letter, supports, call>>

Destroy(m) == Move(m, {})

Next ==
    \/ Begin \/ RateLimitCheck \/ Fails \/ Whoami \/ GetAccountInfo
    \/ EmailQuery \/ ThreadGet \/ EmailGet
    \/ ListRecentEmails \/ ReadThread \/ SearchEmails
    \/ ReadEmail \/ GetEmailHeaders \/ ListAttachments
    \/ FindAttachment \/ DownloadBlob
    \/ ListMailboxes \/ GetMailboxInfo \/ GetUnreadSummary \/ ListRecentActivity
    \/ GetVacationResponse
    \/ \E m \in Mails :
          Deliver(m) \/ Destroy(m) \/ \E b \in Boxes : Move(m, {b})

Spec == Init /\ [][Next]_vars

-----------------------------------------------------------------------------
(* Properties                                                              *)

Answered(tools) == call.pc = "answered" /\ call.kind = "ok" /\ Tool \in tools

ContentTools == EmailTools \cup {"list_recent_emails", "search_emails",
                                 "read_thread", "download_attachment"}

\* The results of an answer that show what strangers wrote.
Results == IF Answered(ContentTools) THEN Range(call.items) ELSE {}

\* The escapes of escape_injection_markers() are right on every short text: no
\* pass leaves or rebuilds a marker, nothing is lost but the case, and what
\* is_suspicious() flags by a marker is escaped.  It depends on no state, and is
\* evaluated where nothing has happened yet.
EscapeSound ==
    call = Idle /\ (\A m \in Mails : letter[m] = None) => EscapeSoundFor(Texts)

\* The delimiters of a wrapped text are where wrap_body() put them, and nowhere
\* in the sender's name or in the body.
Delimited(text) ==
    /\ {i \in DOMAIN text : FoundAt(text, Open, i)} = {1}
    /\ {i \in DOMAIN text : FoundAt(text, Close, i)} = {Len(text) - 3}
    /\ \A token \in Range(ANGLE_ROLE_TOKENS) : ~ Mentions(text, token)

\* Whatever a message says in whatever field, no marker is left in a text a
\* tool shows, not even one that addrs() completes by putting a name and an
\* address together or that truncate_text_body() cuts, and a wrapped body has
\* exactly one opening and one closing delimiter.
Sandboxed ==
    \A r \in Results :
        /\ \A text \in r.plain : MarkersIn(text) = {}
        /\ \A text \in r.wrapped : Delimited(text)

\* Everything of a message a tool may show.
RawTexts(m) ==
    LET l == letter[m] IN
    {Addrs(l.from), Addrs(l.to), l.subject, l.ref, Snippet(m)} \cup Maybe(l.name)
        \cup {Truncate(t) : t \in {ExtractTextBody(l)} \cup Maybe(ExtractHtmlBody(l))}

\* `suspicious` is about all that a result shows and only that.  If it is set,
\* one of the texts in the result, escaped or wrapped, was suspicious before it
\* was escaped; if it is not, each of them comes of a text that was not.
FlagIsExact ==
    \A r \in Results :
        LET Wrapped(t) == WrapBody(Addrs(letter[r.id].from), t)
            innocent == {t \in RawTexts(r.id) : ~ Suspicious(t)}
        IN IF r.suspicious
           THEN \E t \in RawTexts(r.id) \ innocent :
                    Escape(t) \in r.plain \/ Wrapped(t) \in r.wrapped
           ELSE /\ r.plain \subseteq {Escape(t) : t \in innocent}
                /\ r.wrapped \subseteq {Wrapped(t) : t \in innocent}

\* What an answer leaves out it leaves out for cause.
\*  - A list cut at its limit keeps the newest: a message of the mailbox, search
\*    or thread that existed from the query to the get and is not in the answer
\*    has at least `limit` others, no older, before it.
\*  - A mailbox left out of list_recent_activity() has no more unread messages
\*    than one listed.
\*  - A hit without snippet is one whose message has none or is gone, unless
\*    Stalwart lacks SearchSnippet/get, and get_vacation_response() says "not
\*    supported" of no server that supports it: a failure is never shown as an
\*    absence.
LeftOutForCause ==
    LET ids == {call.items[i].id : i \in DOMAIN call.items} IN
    /\ Answered({"list_recent_emails", "search_emails", "read_thread"}) =>
          \A m \in (call.held \cap call.lives) \ ids :
              Limit <= Cardinality(
                  {n \in IF Tool = "read_thread" THEN ids ELSE call.held \ {m} :
                      ReceivedAt[n] >= ReceivedAt[m]})
    /\ Answered({"list_recent_activity"}) =>
          \A b \in Boxes \ ids, i \in DOMAIN call.items :
              MailboxSummary(b).unread <= call.items[i].unread
    /\ Answered({"search_emails"}) /\ "SearchSnippet/get" \in supports =>
          \A r \in Results : r.wrapped = {} => r.id \notin Existing \/ Snippet(r.id) = <<>>
    /\ Answered({"get_vacation_response"}) =>
          call.items[1].supported = ("VacationResponse/get" \in supports)

\* No download passes the cap, whatever size the message declares and whether
\* or not the server announces a length, and the bytes are those of an
\* attachment of the message named.
DownloadCapped ==
    Answered({"download_attachment"}) =>
        /\ call.items[1].bytes <= DownloadMaxBytes
        /\ call.items[1].bytes = letter[call.req.of].bytes

\* read_email()'s description: "null means no HTML part, never a fallback to
\* the text".
HtmlNullMeansNone ==
    Answered({"read_email"}) =>
        ((call.items[1].html = None) <=> (letter[call.req.of].html = None))
=============================================================================
