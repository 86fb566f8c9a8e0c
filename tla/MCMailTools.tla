----------------------------- MODULE MCMailTools -----------------------------
EXTENDS MailTools, TLC

CONSTANTS c1, c2

\* Mailbox ids are named after their roles; "extra" has none.
MCRoleOf == [b \in Boxes |-> IF b = "extra" THEN None ELSE b]

\* One call of any tool beside one of the tools that can get in its way.
MCUses ==
    c1 :> {q.tool : q \in Requests}
    @@ c2 :> {"empty_trash", "delete_mailbox", "set_audit_mailbox"}
=============================================================================
