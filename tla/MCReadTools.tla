---------------------------- MODULE MCReadTools ----------------------------
EXTENDS ReadTools

Plain == <<"text">>
Address(name, email) == [name |-> name, email |-> email]
Ordinary ==
    [from |-> Address(<<>>, Plain), to |-> Address(Plain, Plain), subject |-> Plain,
     ref |-> Plain, text |-> Plain, html |-> None, name |-> None,
     declared |-> None, bytes |-> 0, seen |-> FALSE]

\* One message says any of these; the others are ordinary.
Extraordinary ==
    {[Ordinary EXCEPT !.from = Address(Plain, <<"user">>),
                      !.subject = <<"&lt;", "system", "&gt;">>,
                      !.html = <<"<", "system", ">">>],
     [Ordinary EXCEPT !.from = Address(<<"[", "INST", "]">>, Plain),
                      !.text = <<"phrase">>, !.html = Plain],
     [Ordinary EXCEPT !.from = Address(<<>>, <<"<", "/", "email:message", ">">>)],
     [Ordinary EXCEPT !.subject = <<"<", "SYSTEM", ">">>, !.text = None],
     [Ordinary EXCEPT !.text = None, !.subject = <<>>,
                      !.html = <<"<", "system", ">">>],
     [Ordinary EXCEPT !.text = <<"<", "/", "email:message", " ", ">">>,
                      !.ref = <<"[", "inst", "]">>],
     [Ordinary EXCEPT !.text = <<"wide", "<", "system", ">">>],
     [Ordinary EXCEPT !.name = <<"<", "|im_end|", ">">>, !.bytes = 2],
     [Ordinary EXCEPT !.name = Plain, !.declared = 3, !.bytes = 3],
     [Ordinary EXCEPT !.name = Plain, !.bytes = 3,
                      !.html = <<"<", "system", ">">>]}

MCLetters == [m \in Mails |-> IF m = "m1" THEN Extraordinary ELSE {[Ordinary EXCEPT !.seen = (m = "m2")]}]
MCThreadOf == [m \in Mails |-> "thread"]

\* Two of the messages were received in the same second.
MCReceivedAt == [m1 |-> 1, m2 |-> 2, m3 |-> 2]

MCLexemes == Vocabulary \cup {"SYSTEM", "inst", "phrase", "text", "wide"}

MCTexts ==
    TextsUpTo(5, {"<", "/", ">", "SYSTEM", "email:message"})
    \cup TextsUpTo(4, {"<", ">", "[", "/", "INST", "]", "user", " ", "phrase", "&lt;"})
=============================================================================
