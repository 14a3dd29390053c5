------------------------------- MODULE XmlTree -------------------------------
(***************************************************************************)
(* The XML documents that gateways answer with, and how the library looks  *)
(* things up in them (src/src/xml.h, src/src/xml.cpp).                     *)
(*                                                                         *)
(* A tree has a text and children in document order; "parsed" is what the  *)
(* text is when it is parsed as XML in turn.  The name of a child is a     *)
(* pair of namespace prefix and local name.  An optional value is a        *)
(* sequence of length 0 or 1.                                              *)
(***************************************************************************)
EXTENDS Naturals, SequencesExt

CONSTANTS
    Numeral,   \* the number that a text begins with, for texts that do
    AddressOf  \* the IP address a text is, for texts that are one

Nothing == <<>>

Tree(text, parsed, children) == [text |-> text, parsed |-> parsed, children |-> children]
Leaf(text)                   == Tree(text, Nothing, <<>>)
Inner(children)              == Tree("", Nothing, children)
Child(name, tree)            == [name |-> name, tree |-> tree]

FirstChild(tree, Test(_)) ==
    LET i == SelectInSeq(tree.children, LAMBDA c : Test(c.name))
    IN  IF i = 0 THEN Nothing ELSE <<tree.children[i].tree>>

(* Mutated Matches: "*" stands for any prefix, but there must be one.      *)
MatchesPrefixed(name, pattern) ==
    IF pattern[1] = "*" THEN name[2] = pattern[2] /\ name[1] # "" ELSE name = pattern

(* "*" in a pattern stands for any prefix, or none.                        *)
Matches(name, pattern) ==
    IF pattern[1] = "*" THEN name[2] = pattern[2] ELSE name = pattern

(* xml::get_child: down the path, each time into the first child that      *)
(* matches.                                                                *)
GetChild(tree, path) ==
    FoldLeft(LAMBDA found, pattern :
                 IF found = Nothing THEN Nothing
                 ELSE FirstChild(found[1], LAMBDA name : Matches(name, pattern)),
             <<tree>>, path)

(* ptree::get_optional, for one child and by its full name.                *)
GetText(tree, name) ==
    LET found == FirstChild(tree, LAMBDA n : n = name)
    IN  IF found = Nothing THEN Nothing ELSE <<found[1].text>>

(* Mutated GetNum: the number is returned as it is.                        *)
GetNumUnlimited(tree, name, limit) ==
    LET text == GetText(tree, name)
    IN  IF text = Nothing \/ text[1] \notin DOMAIN Numeral THEN Nothing
        ELSE <<Numeral[text[1]]>>

(* xml::get_num: what follows the digits is ignored, a number that is too  *)
(* large for the type is none.                                             *)
GetNum(tree, name, limit) ==
    LET text == GetText(tree, name)
    IN  IF text = Nothing \/ text[1] \notin DOMAIN Numeral \/ Numeral[text[1]] > limit
        THEN Nothing
        ELSE <<Numeral[text[1]]>>

GetAddress(tree, name) ==
    LET text == GetText(tree, name)
    IN  IF text = Nothing \/ text[1] \notin DOMAIN AddressOf THEN Nothing
        ELSE <<AddressOf[text[1]]>>
=============================================================================
