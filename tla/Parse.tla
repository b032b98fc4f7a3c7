------------------------------- MODULE Parse --------------------------------
(***************************************************************************)
(* parse.cpp: the sub-requests that a request's text stands for.  A text   *)
(* is what tinyxml2 makes of it after its first line: the name of the root *)
(* element, "" when it is not well-formed, the root's attributes and its   *)
(* children.  An attribute that is not a number reads as 0 and is a 0      *)
(* here; a missing one is not in the DOMAIN, and text that is missing is   *)
(* not either.                                                             *)
(***************************************************************************)
EXTENDS Sequences, SequencesExt

\* FindAttribute and GetText return a null pointer for what is not there.
Has(element, names) == names \subseteq DOMAIN element.attrs

ReadSymbol(child) ==
  [i \in DOMAIN child.sellers |->
     [op |-> "symbol", acct |-> child.sellers[i].attrs.id,
      sym |-> child.attrs.sym, num |-> child.sellers[i].attrs.text]]

\* A child of <create>; one with another name is passed over.
ReadCreate(child) ==
  IF child.name = "account"
  THEN << [op |-> "account", acct |-> child.attrs.id, balance |-> child.attrs.balance] >>
  ELSE IF child.name = "symbol" THEN ReadSymbol(child) ELSE << >>

\* A child of <transactions>, for the account named by the root.
ReadTrans(acct, child) ==
  IF child.name = "order"
  THEN << [op |-> "order", acct |-> acct, sym |-> child.attrs.sym,
           amount |-> child.attrs.amount, limit |-> child.attrs.limit] >>
  ELSE IF child.name \in {"query", "cancel"}
  THEN << [op |-> child.name, acct |-> acct, id |-> child.attrs.id] >>
  ELSE << >>

\* The order of the children is the order in which they are executed.
SubRequests(text) ==
  FlattenSeq([i \in DOMAIN text.children |->
                IF text.name = "create" THEN ReadCreate(text.children[i])
                ELSE ReadTrans(text.attrs.id, text.children[i])])

\* What a child needs for its conversions not to read through a null pointer.
Sound(child) ==
  /\ child.name = "account" => Has(child, {"id", "balance"})
  /\ child.name = "symbol" => /\ Has(child, {"sym"})
                              /\ \A i \in DOMAIN child.sellers : Has(child.sellers[i], {"id", "text"})
  /\ child.name = "order" => Has(child, {"sym", "amount", "limit"})
  /\ child.name \in {"query", "cancel"} => Has(child, {"id"})

\* parseXML: the process dies of a null root, attribute or text, and an unknown
\* root is thrown as a MyException before the database is connected.
Outcome(text) ==
  IF text.name = "" THEN "dies"
  ELSE IF text.name \notin {"create", "transactions"} THEN "invalid"
  ELSE IF /\ text.name = "transactions" => Has(text, {"id"})
          /\ \A i \in DOMAIN text.children : Sound(text.children[i])
       THEN "ok" ELSE "dies"
=============================================================================
