--------------------------- MODULE ContentSandbox ---------------------------
(***************************************************************************)
(* What the read tools do to text that strangers wrote                     *)
(* (src/content_sandbox.rs): escape the markers a language model could     *)
(* take for control tokens, wrap bodies in a delimiter, flag what looks    *)
(* like an attempt.                                                        *)
(*                                                                         *)
(* A text is a sequence of lexemes, the largest pieces the code never      *)
(* takes apart: brackets, slashes, the words inside a marker, in lower     *)
(* case or not, and entity references.  "phrase" stands for any of         *)
(* INSTRUCTION_OVERRIDE_PHRASES and "text" for everything else.            *)
(***************************************************************************)
EXTENDS Integers, Sequences, FiniteSets, SequencesExt

Open == <<"<", "email:message">>
Close == <<"<", "/", "email:message">>

ANGLE_ROLE_TOKENS ==
    << <<"<", "system", ">">>, <<"<", "/", "system", ">">>,
       <<"<", "assistant", ">">>, <<"<", "/", "assistant", ">">>,
       <<"<", "user", ">">>, <<"<", "/", "user", ">">>,
       <<"<", "|im_start|", ">">>, <<"<", "|im_end|", ">">> >>
BRACKET_ROLE_TOKENS == << <<"[", "INST", "]">>, <<"[", "/", "INST", "]">> >>

SUSPICIOUS_ROLE_MARKERS ==
    {<<"<", "system", ">">>, <<"<", "/", "system", ">">>,
     <<"<", "assistant", ">">>, <<"<", "/", "assistant", ">">>,
     <<"<", "|im_start|", ">">>, <<"<", "|im_end|", ">">>,
     <<"[", "inst", "]">>, <<"[", "/", "inst", "]">>}

\* The lexemes of the tables above, and those the code writes itself.
Vocabulary ==
    {"<", ">", "[", "]", "/", " ", "&lt;", "&gt;", "&#91;", "&#93;",
     "email:message", "system", "assistant", "user", "|im_start|", "|im_end|", "INST"}

\* to_ascii_lowercase() on the lexemes that have two spellings.
Lower(l) == CASE l = "SYSTEM" -> "system" [] l = "INST" -> "inst" [] OTHER -> l
LowerCase(text) == [i \in DOMAIN text |-> Lower(text[i])]

\* `needle` starts at the i-th lexeme of `text`, in whatever case.
FoundAt(text, needle, i) ==
    /\ i + Len(needle) - 1 <= Len(text)
    /\ LowerCase(SubSeq(text, i, i + Len(needle) - 1)) = LowerCase(needle)

Mentions(text, needle) == \E i \in DOMAIN text : FoundAt(text, needle, i)

\* The entity reference a marker's delimiter is rendered as.
Entity(l) ==
    CASE l = "<" -> "&lt;" [] l = ">" -> "&gt;"
      [] l = "[" -> "&#91;" [] l = "]" -> "&#93;" [] OTHER -> l

\* replace_ascii_case_insensitive(): every occurrence from the left, none
\* inside another, becomes the needle's own spelling with its delimiters
\* rendered as entities.
Replace(text, needle) ==
    LET rest[i \in 1..(Len(text) + 1)] ==
          IF i > Len(text) THEN <<>>
          ELSE IF FoundAt(text, needle, i)
               THEN [k \in DOMAIN needle |-> Entity(needle[k])]
                    \o rest[i + Len(needle)]
               ELSE <<text[i]>> \o rest[i + 1]
    IN rest[1]

\* Mutant: the closing delimiter is looked for in its canonical form only.
CanonicalPasses ==
    <<Close \o <<">">>, Open>> \o ANGLE_ROLE_TOKENS \o BRACKET_ROLE_TOKENS

\* The needles of escape_injection_markers(), in its order.
Passes ==
    <<Close \o <<">">>, Close, Open>> \o ANGLE_ROLE_TOKENS \o BRACKET_ROLE_TOKENS

\* escape_injection_markers(), alias sanitize_external_text().
Escape(text) == FoldLeft(Replace, text, Passes)

\* attr_escape(): angle brackets only; square ones pass.
AttrEscape(text) ==
    [i \in DOMAIN text |-> IF text[i] \in {"<", ">"} THEN Entity(text[i]) ELSE text[i]]

\* wrap_body().  The other attributes are ids, which hold no delimiter.
WrapBody(sender, body) ==
    Open \o <<" ">> \o AttrEscape(sender) \o <<">">> \o Escape(body)
         \o Close \o <<">">>

\* is_suspicious(), alias external_text_is_suspicious().
Suspicious(text) ==
    \/ \E marker \in SUSPICIOUS_ROLE_MARKERS \cup {Close, Open \o <<" ">>} :
          Mentions(text, marker)
    \/ Mentions(text, <<"phrase">>)

\* evaluate(): the verdict is on the raw text.
Evaluate(sender, body) ==
    [wrapped |-> WrapBody(sender, body), suspicious |-> Suspicious(body)]

-----------------------------------------------------------------------------
(* What the escapes promise.                                               *)

\* The texts of at most n lexemes.
TextsUpTo(n, alphabet) == UNION {[1..k -> alphabet] : k \in 0..n}

\* The markers that are left in a text, in whatever case.
MarkersIn(text) ==
    LET pieces == {SubSeq(LowerCase(text), i, j) : i, j \in DOMAIN text} IN
    {p \in {Close, Open} \cup Range(ANGLE_ROLE_TOKENS) \cup Range(BRACKET_ROLE_TOKENS) :
        LowerCase(p) \in pieces}

\* What an entity reference stands for; other lexemes in lower case.
Resolved(l) ==
    CASE l = "&lt;" -> "<" [] l = "&gt;" -> ">"
      [] l = "&#91;" -> "[" [] l = "&#93;" -> "]" [] OTHER -> Lower(l)

\* A text with the entity references resolved, in lower case.
Unescaped(text) == [i \in DOMAIN text |-> Resolved(text[i])]

\* Escaping is right for every text of the set: no marker is left, neither one
\* that was there nor one that a later pass put together from the output of an
\* earlier one; a reader who resolves the entities has the text back, up to
\* case and to the entities it came with; and a text that is flagged, but for a
\* phrase, never comes through unchanged, although the two marker tables differ.
EscapeSoundFor(texts) ==
    \A t \in texts :
        /\ MarkersIn(Escape(t)) = {}
        /\ Unescaped(Escape(t)) = Unescaped(t)
        /\ Suspicious(t) /\ ~ Mentions(t, <<"phrase">>) => Escape(t) # t
=============================================================================
