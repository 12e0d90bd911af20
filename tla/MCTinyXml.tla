------------------------------ MODULE MCTinyXml ------------------------------
(***************************************************************************)
(* Five files with everything TinyXML reads in them, and two with all that *)
(* Character looks for: a soldier, and one behind an archer with other     *)
(* values.                                                                 *)
(***************************************************************************)
EXTENDS TinyXml

Forms == {
  \* <?xml version="1"?> <attributes/>
  <<"<", "?xml", " ", "version", "=", "\"", "1", "\"", "?", ">", "\r", "\n",
    "<", "attributes", "/", ">">>,
  \* the path to the cost of a soldier
  <<"<", "attributes", ">", "<", "soldier", ">", "<", "cost", ">", " ", "1", " ",
    "<", "/", "cost", ">", "<", "/", "soldier", ">", "<", "/", "attributes", ">">>,
  \* <cost version='1'><!--1--></cost>
  <<"<", "cost", " ", "version", "=", "'", "1", "'", ">", "<", "!--", "1", "--", ">",
    "<", "/", "cost", ">">>,
  \* <cost>1<![CDATA[1]]></cost><!DOCTYPE>
  <<"<", "cost", ">", "1", "<", "![CDATA[", "1", "]]", ">", "<", "/", "cost", ">",
    "<", "!DOCTYPE", ">">>,
  \* <cost cost=1 version="&amp;"/>
  <<"<", "cost", " ", "cost", "=", "1", " ", "version", "=", "\"", "&", "amp;", "\"", "/", ">">>}

Pieces == {<<"<">>, <<">">>, <<"/">>, <<" ">>, <<"\n">>, <<"\"">>, <<"'">>, <<"cost">>,
           <<"2">>, <<"&", "#x31;">>, <<"&", "lt;">>}

Open(name) == <<"<", name, ">">>
Shut(name) == <<"<", "/", name, ">">>
Type(name, value) ==
  Open(name) \o FlattenSeq([k \in DOMAIN Attributes |->
                              Open(Attributes[k]) \o <<value>> \o Shut(Attributes[k])])
             \o Shut(name)
Whole(types) == Open("attributes") \o types \o Shut("attributes")

File(text0, inserted, most) == [text |-> text0, inserted |-> inserted, edits |-> most]
MCFiles ==
  {File(form, Pieces, 2) : form \in Forms} \cup
  {File(Whole(Type("soldier", "1")),
        {Shut("attributes"), <<"/">>, <<"2">>, <<"<", "!--">>}, 2),
   File(Whole(Type("archer", "2") \o Type("soldier", "1")), Pieces, 1)}
=============================================================================
