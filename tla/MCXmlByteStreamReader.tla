----------------------- MODULE MCXmlByteStreamReader -----------------------
(***************************************************************************)
(* Documents for XmlByteStreamReader: an element with up to MaxParts       *)
(* tokens, and up to MaxSpace bytes of white space and a comment on either *)
(* side.                                                                   *)
(***************************************************************************)
EXTENDS XmlByteStreamReader

CONSTANTS MaxParts, MaxSpace

Token(kind, size, text) == [k |-> kind, size |-> size, text |-> text]

Open    == Token("start", 3, << >>)
Close   == Token("end", 4, << >>)
Comment == Token("misc", 4, << >>)
Char    == Token("char", 1, << >>)
Blank   == Token("ws", 1, << >>)

(* The parts of the element: &c; is text, &d; an element.                  *)
Parts ==
  {<<Char>>, <<Comment>>, <<Open, Close>>,
   <<Token("ref", 3, <<"char", "char">>)>>,
   <<Token("ref", 3, <<"start", "char", "end">>)>>,
   <<Token("empty", 4, << >>)>>}

(* A comment larger than the buffer promises to hold.                      *)
BigParts == {<<Token("misc", 6, << >>)>>}

Around == {spaces \o rest : spaces \in {[m \in 1..n |-> Blank] : n \in 0..MaxSpace},
                           rest \in {<< >>, <<Comment>>}}

(* The bytes of a sequence of tokens.                                      *)
Bytes(tokens) ==
  FlattenSeq([n \in DOMAIN tokens |->
    [m \in 1..tokens[n].size |->
      [t |-> n, k |-> tokens[n].k, size |-> tokens[n].size, i |-> m,
       text |-> tokens[n].text]]])

Bodies == {FlattenSeq(ps) : ps \in UNION {[1..n -> Parts \cup BigParts] : n \in 0..MaxParts}}

Documents ==
  {Bytes(before \o <<Open>> \o body \o <<Close>> \o after) :
     before \in Around, body \in Bodies, after \in Around}

(* Every length of a text alone, to several times the buffer.              *)
Texts == {Bytes(<<Open>> \o [m \in 1..n |-> Char] \o <<Close>>) : n \in 0..20}

AllDocuments == Documents \cup Texts
=============================================================================
