----------------------------- MODULE FromAddress -----------------------------
(***************************************************************************)
(* Which address a message is sent from, and under which submission        *)
(* identity (src/mcp.rs: owned_addresses, choose_from_address and their    *)
(* helpers).  Every tool that sends or drafts mail resolves its From here; *)
(* get_identities() offers the same addresses and get_profile() shows one. *)
(* The operator's declared addresses come out of src/config.rs.            *)
(*                                                                         *)
(* An address stands for all its spellings up to case and surrounding      *)
(* blanks, which is how the code compares them.                            *)
(***************************************************************************)
EXTENDS Integers, Sequences, SequencesExt

CONSTANTS
    RoleAddresses,  \* addresses whose local part is a shared role
    Addresses, Ids, \* of mail and of submission identities
    Inputs,         \* the requests and what the server knows then
    Malformed,      \* what is no address
    Refused,        \* the answer that is an error
    None

VARIABLES
    in,     \* the request: what the server knows and what the caller passed
    tool,   \* the tool that answered, None before it did
    out     \* its answer

vars == <<in, tool, out>>

OwnedAddress == [email: Addresses, identity: Ids \cup {None}]

\* What the server knows when a tool is called (the identities, how the lookup
\* of the principals ends and what it finds, the addresses the operator declared,
\* the token's e-mail claim and the account Stalwart authenticated) and what the
\* caller passes.
Input ==
    [identities: Seq([email: Addresses, identity: Ids]),
     lookup: {"ok", "unavailable", "failed"},
     principals: Seq([names: SUBSET Addresses,
                      aliases: Seq([email: Addresses, enabled: BOOLEAN,
                                    domainKnown: BOOLEAN])]),
     declared: Seq([owner: Addresses \cup {Malformed, None},
                    email: Addresses \cup {Malformed}]),
     explicit: Addresses \cup {None},
     preferred: Seq(Addresses),
     claim: Addresses \cup {None},
     authenticatedAs: Addresses \cup {None}]

\* The requests are requests, and neither an error nor nothing is an address, an
\* identity, the record of an address or a tool.
ASSUME FromAssumption ==
    /\ Inputs \subseteq Input
    /\ None \notin Addresses /\ Refused \notin Addresses /\ None \notin Ids
    /\ None \notin {"resolve", "get_identities", "get_profile"}
    /\ \A a \in OwnedAddress : a # None /\ a # Refused

\* An address the mailbox owns; an alias has no identity.
Owned(email, identity) == [email |-> email, identity |-> identity]

IsRoleAddress(email) == email \in RoleAddresses

\* The first element of s that satisfies P, or None.
FindFirst(s, P(_)) ==
    LET n == SelectInSeq(s, P) IN IF n = 0 THEN None ELSE s[n]

-----------------------------------------------------------------------------
(* JMAP_MCP_EXTRA_FROM_ADDRESSES: `owner=address` entries, or bare ones     *)

ParseOneAddress(raw) ==
    IF raw = Malformed \/ IsRoleAddress(raw) THEN Refused ELSE raw

\* A bad entry is refused, bare or not; a bare one is granted to nobody, and
\* one that is there already is dropped.
ParseExtraFromAddresses(entries) ==
    IF \E k \in DOMAIN entries :
          \/ ParseOneAddress(entries[k].email) = Refused
          \/ entries[k].owner # None /\ ParseOneAddress(entries[k].owner) = Refused
    THEN Refused
    ELSE [k \in DOMAIN entries |->
             IF entries[k].owner = None \/ \E j \in 1 .. k - 1 : entries[j] = entries[k]
             THEN None ELSE entries[k]]

-----------------------------------------------------------------------------
(* owned_addresses().  The filters below give each element they look at or, *)
(* where they pass it over, None.                                          *)

\* Append an address that is not there yet.
Push(list, email) ==
    IF email = None \/ \E i \in DOMAIN list : list[i].email = email
    THEN list ELSE Append(list, Owned(email, None))

Merge(list, emails) == FoldLeft(Push, list, emails)

\* principal_is(): the principal goes by the caller's name.
PrincipalIs(principal, username) == username \in principal.names

\* aliases_of(): enabled aliases whose domain is known.  The code sorts them by
\* address; OrderIrrelevant shows that no answer depends on their order.
AliasesOf(principal) ==
    LET usable(a) == a.enabled /\ a.domainKnown
    IN [k \in DOMAIN principal.aliases |->
           IF usable(principal.aliases[k]) THEN principal.aliases[k].email ELSE None]

\* principal_aliases(): looked up under the token's e-mail claim; a server that
\* does not offer the extension, or denies it, is one without aliases.
PrincipalAliases(i) ==
    IF i.claim = None \/ i.lookup = "unavailable" THEN <<>>
    ELSE LET own == SelectInSeq(i.principals, LAMBDA p : PrincipalIs(p, i.claim))
         IN IF own = 0 THEN <<>> ELSE AliasesOf(i.principals[own])

\* Mutant: every declared address is granted to every caller.
ExtrasForAll(username, extras) ==
    [k \in DOMAIN extras |->
        IF extras[k] # None /\ ~ IsRoleAddress(extras[k].email)
        THEN extras[k].email ELSE None]

\* extras_granted_to()
ExtrasGrantedTo(username, extras) ==
    IF username = None THEN <<>>
    ELSE LET granted(e) == e # None /\ ~ IsRoleAddress(e.email) /\ e.owner = username
         IN [k \in DOMAIN extras |-> IF granted(extras[k]) THEN extras[k].email ELSE None]

\* The declared addresses go by the account Stalwart says the caller is.
OwnedAddresses(i) ==
    Merge(Merge(i.identities, PrincipalAliases(i)),
          ExtrasGrantedTo(i.authenticatedAs, ParseExtraFromAddresses(i.declared)))

-----------------------------------------------------------------------------
(* choose_from_address()                                                   *)

Find(owned, want) == FindFirst(owned, LAMBDA a : a.email = want)

\* Mutant: the first address the server lists.
FirstListed(owned, i) == owned[1]

\* The default: a preferred address that is owned and personal, else the
\* signed-in user's own.
DefaultFrom(owned, i) ==
    LET personal(want) == Find(owned, want) # None /\ ~ IsRoleAddress(want)
        wanted == FindFirst(i.preferred, LAMBDA p : personal(p))
    IN IF wanted # None THEN Find(owned, wanted)
       ELSE IF i.claim # None /\ personal(i.claim) THEN Find(owned, i.claim)
       ELSE None

\* An explicit From must be owned and personal.
ExplicitFrom(owned, want) ==
    IF IsRoleAddress(want) THEN None ELSE Find(owned, want)

\* Mutant: any identity will do.
AnyIdentityId(owned, i) ==
    LET a == FindFirst(owned, LAMBDA x : x.identity # None)
    IN IF a = None THEN None ELSE a.identity

\* fallback_identity_id(): the signed-in user's identity, else a personal one.
FallbackIdentityId(owned, i) ==
    LET mine == FindFirst(owned, LAMBDA a : a.email = i.claim /\ a.identity # None)
        personal == FindFirst(owned,
                        LAMBDA a : a.identity # None /\ ~ IsRoleAddress(a.email))
    IN IF mine # None THEN mine.identity
       ELSE IF personal # None THEN personal.identity
       ELSE None

ChooseFromAddress(owned, i) ==
    LET chosen == IF i.explicit # None THEN ExplicitFrom(owned, i.explicit)
                                       ELSE DefaultFrom(owned, i)
        identity == IF chosen.identity # None THEN chosen.identity
                                              ELSE FallbackIdentityId(owned, i)
    IN IF owned = <<>> \/ chosen = None THEN Refused
       ELSE IF identity = None THEN Refused
       ELSE Owned(chosen.email, identity)

-----------------------------------------------------------------------------
(* The tools                                                               *)

\* A failing request to Stalwart (identities, principals or session) fails the
\* tool.
Answer(name, answer) ==
    /\ tool = None
    /\ tool' = name
    /\ out' = IF in.lookup = "failed" THEN Refused ELSE answer
    /\ UNCHANGED in

Resolve == Answer("resolve", ChooseFromAddress(OwnedAddresses(in), in))

\* get_identities(): the owned addresses, personal ones first.
GetIdentities ==
    LET owned == OwnedAddresses(in) IN
    Answer("get_identities",
           {[email |-> owned[k].email, identity |-> owned[k].identity,
             role |-> IsRoleAddress(owned[k].email)] : k \in DOMAIN owned})

\* select_profile_identity()
SelectProfileIdentity(identities, preferred) ==
    LET own == Find(identities, preferred)
        personal == FindFirst(identities, LAMBDA a : ~ IsRoleAddress(a.email))
    IN IF own # None THEN own
       ELSE IF personal # None THEN personal
       ELSE FindFirst(identities, LAMBDA a : TRUE)

GetProfile ==
    Answer("get_profile",
           SelectProfileIdentity(in.identities,
                                 IF in.claim # None THEN in.claim ELSE in.authenticatedAs))

\* from_env() fails, and the server does not start, on a declared address it
\* cannot parse.
Init ==
    /\ in \in {i \in Inputs : ParseExtraFromAddresses(i.declared) # Refused}
    /\ tool = None /\ out = None

Next == Resolve \/ GetIdentities \/ GetProfile

Spec == Init /\ [][Next]_vars

-----------------------------------------------------------------------------
(* Properties                                                              *)

Sent == tool = "resolve" /\ out # Refused

\* The addresses somebody gave to the caller: an identity or an enabled alias of
\* the mailbox, or one the operator declared for the very account Stalwart
\* authenticated.
Entitled(email) ==
    \/ \E k \in DOMAIN in.identities : in.identities[k].email = email
    \/ \E p \in DOMAIN in.principals : \E k \in DOMAIN in.principals[p].aliases :
          /\ in.lookup = "ok" /\ in.claim \in in.principals[p].names
          /\ in.principals[p].aliases[k].email = email
          /\ in.principals[p].aliases[k].enabled
    \/ /\ in.authenticatedAs # None
       /\ \E k \in DOMAIN in.declared :
             in.declared[k] = [owner |-> in.authenticatedAs, email |-> email]

\* From is an address the caller is entitled to and never a shared one, whatever
\* the caller passes and the server lists: a declared address never goes to a
\* caller because of what its token claims, or because it has no owner.
\* get_identities() offers no other either, and marks the shared ones.
FromIsEntitled ==
    /\ Sent => Entitled(out.email) /\ out.email \notin RoleAddresses
    /\ tool = "get_identities" /\ out # Refused =>
          \A a \in out : Entitled(a.email) /\ (a.role <=> a.email \in RoleAddresses)

Orders(s) == {[k \in DOMAIN s |-> s[p[k]]] :
                 p \in {f \in [DOMAIN s -> DOMAIN s] :
                           \A a, b \in DOMAIN s : f[a] = f[b] => a = b}}

EmailOf(answer) == IF answer = Refused THEN Refused ELSE answer.email

\* The address does not depend on the order in which the server happens to
\* list the identities and the aliases.
OrderIrrelevant ==
    tool = "resolve" /\ in.lookup # "failed" =>
        \A s \in Orders(in.identities) :
            LET j == [in EXCEPT
                        !.identities = s,
                        !.principals = [p \in DOMAIN in.principals |->
                            [in.principals[p] EXCEPT !.aliases = Reverse(@)]]]
            IN EmailOf(ChooseFromAddress(OwnedAddresses(j), j)) = EmailOf(out)

\* A message is submitted under the identity of its From if that has one, and
\* otherwise never under a shared one other than the caller's own.  The identity
\* get_profile() shows is that of the default From, if that has one, although
\* the two are chosen by different code.
IdentityFits ==
    /\ Sent =>
          \E k \in DOMAIN in.identities :
              /\ in.identities[k].identity = out.identity
              /\ \/ in.identities[k].email = out.email
                 \/ /\ \A n \in DOMAIN in.identities : in.identities[n].email # out.email
                    /\ \/ in.identities[k].email = in.claim
                       \/ in.identities[k].email \notin RoleAddresses
    /\ tool = "get_profile" /\ out # Refused =>
          LET from == DefaultFrom(OwnedAddresses(in), [in EXCEPT !.preferred = <<>>])
          IN from # None /\ from.identity # None => out = from

=============================================================================
