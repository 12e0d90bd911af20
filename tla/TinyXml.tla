------------------------------- MODULE TinyXml -------------------------------
(***************************************************************************)
(* src/src/include/TinyXML: how a file is read into a tree and a tree is   *)
(* written, and what Character::initializeAttributes makes of the tree of  *)
(* attributes.xml.                                                         *)
(*                                                                         *)
(* A file is a sequence of symbols; a symbol is a character or several     *)
(* that only mean something together ("!--", "?xml", "amp;", a name).     *)
(* A position is an index of the file.  A NULL pointer is the end of the   *)
(* file: every loop of the parser tests p && *p, and what failed goes on   *)
(* from NULL.  Encodings, rows and columns, and the kind of an error are   *)
(* left out; of a declaration only the version is kept.                    *)
(***************************************************************************)
EXTENDS Naturals, SequencesExt

CONSTANT Files     \* the files to start from, what an edit of each may put in,
                   \* and the bound on its edits

Attributes == <<"cost", "health", "attackDamage", "attackRange", "movementRange">>
Letters == {"attributes", "archer", "soldier", "version"} \cup ToSet(Attributes)
Digits  == {"1", "2"}
White   == {" ", "\n"}
Quotes  == {"'", "\""}
Nul     == "end of file"

\* The characters that have an entity, by the entity without its ampersand: by
\* name, and as a reference.
Named  == [x \in {"amp;", "lt;", "gt;", "quot;", "apos;"} |->
             CASE x = "amp;" -> "&" [] x = "lt;" -> "<" [] x = "gt;" -> ">"
               [] x = "quot;" -> "\"" [] x = "apos;" -> "'"]
HexRef == [x \in {"#x31;", "#x0A;"} |-> IF x = "#x31;" THEN "1" ELSE "\n"]
Entity == Named @@ HexRef

ASSUME XmlAssumption ==
  \A f \in Files : {f.text} \cup f.inserted \subseteq Seq(STRING) /\ f.edits \in Nat

Node(kind, value, attributes, children) ==
  [kind |-> kind, value |-> value, attributes |-> attributes, children |-> children]

-----------------------------------------------------------------------------
(* Characters and text *)

At(t, p) == IF p \in DOMAIN t THEN t[p] ELSE Nul
Eof(t)   == Len(t) + 1

\* StringEqual
HasAt(t, p, s) == \A k \in DOMAIN s : At(t, p + k - 1) = s[k]

\* The first position from p on whose symbol passes the test, or the end.
FirstFrom(t, p, Test(_)) ==
  LET found == {k \in p .. Len(t) : Test(t[k])}
  IN IF found = {} THEN Eof(t) ELSE CHOOSE k \in found : \A j \in found : k <= j

SkipWhiteSpace(t, p) == FirstFrom(t, p, LAMBDA c : c \notin White)

\* A name, and nothing goes on behind it if it runs into an entity's semicolon.
ReadName(t, p) ==
  LET q == FirstFrom(t, p, LAMBDA c : c \notin Letters \cup Digits)
  IN IF At(t, p) \in Letters /\ At(t, q) \notin DOMAIN Named
     THEN [name |-> SubSeq(t, p, q - 1), at |-> q]
     ELSE [name |-> <<>>, at |-> Eof(t)]

\* An ampersand that begins no entity is dropped: its length is left at zero.
GetChar(t, p) ==
  CASE t[p] # "&" -> [value |-> <<t[p]>>, at |-> p + 1]
    [] t[p] = "&" /\ At(t, p + 1) \in DOMAIN Entity ->
         [value |-> <<Entity[t[p + 1]]>>, at |-> p + 2]
    [] OTHER -> [value |-> <<>>, at |-> p + 1]

\* Up to endTag.  With trim, white space at the ends is dropped, and within the
\* text a run of it is one space.
RECURSIVE ReadOn(_, _, _, _, _, _)
ReadOn(t, p, trim, endTag, text, whitespace) ==
  IF At(t, p) = Nul \/ HasAt(t, p, endTag) THEN [text |-> text, at |-> p]
  ELSE IF trim /\ t[p] \in White THEN ReadOn(t, p + 1, trim, endTag, text, TRUE)
  ELSE LET c == GetChar(t, p)
       IN ReadOn(t, c.at, trim, endTag,
                 text \o (IF whitespace THEN <<" ">> ELSE <<>>) \o c.value, FALSE)

Behind(t, read, endTag) ==
  [read EXCEPT !.at = IF At(t, @) = Nul THEN Eof(t) ELSE @ + Len(endTag)]

ReadText(t, p, trim, endTag) ==
  Behind(t, ReadOn(t, IF trim THEN SkipWhiteSpace(t, p) ELSE p, trim, endTag, <<>>, FALSE),
         endTag)

-----------------------------------------------------------------------------
(* Nodes.  Each parser returns the node, where to go on, and whether the    *)
(* document's error was set, with which it never goes on.                   *)

\* TiXmlAttribute::Parse.  A value may go without quotes, but not end in one.
Attribute(name, value, at) == [name |-> name, value |-> value, at |-> at]

ReadQuoted(name, read) == Attribute(name, read.text, read.at)

ReadUnquoted(t, name, v) ==
  LET stop == FirstFrom(t, v, LAMBDA c : c \in White \cup Quotes \cup {"/", ">"})
  IN Attribute(name, SubSeq(t, v, stop - 1),
               IF At(t, stop) \in Quotes THEN Eof(t) ELSE stop)

ParseValue(t, name, v) ==
  CASE At(t, v) \in Quotes -> ReadQuoted(name, ReadText(t, v + 1, FALSE, <<t[v]>>))
    [] At(t, v) = Nul      -> Attribute(name, <<>>, Eof(t))
    [] OTHER               -> ReadUnquoted(t, name, v)

ParseBehindName(t, n) ==
  LET eq == SkipWhiteSpace(t, n.at)
  IN IF At(t, n.at) # Nul /\ At(t, eq) = "="
     THEN ParseValue(t, n.name, SkipWhiteSpace(t, eq + 1))
     ELSE Attribute(n.name, <<>>, Eof(t))

ParseAttribute(t, p) == ParseBehindName(t, ReadName(t, p))

\* The attributes of an element: "open" if its value follows, "empty" if not.
Tag(attributes, as, at) == [attributes |-> attributes, as |-> as, at |-> at]

RECURSIVE ReadAttributes(_, _, _), AddAttribute(_, _, _)
ReadAttributes(t, from, attributes) ==
  LET p == SkipWhiteSpace(t, from)
  IN CASE At(t, p) = ">" -> Tag(attributes, "open", p + 1)
       [] At(t, p) = "/" /\ At(t, p + 1) = ">" -> Tag(attributes, "empty", p + 2)
       [] At(t, p) \notin {">", "/", Nul} ->
            AddAttribute(t, ParseAttribute(t, p), attributes)
       [] OTHER -> Tag(attributes, "failed", Eof(t))

\* An attribute is added if it was read, something follows, and it is new.
AddAttribute(t, a, attributes) ==
  IF At(t, a.at) # Nul /\ \A k \in DOMAIN attributes : attributes[k][1] # a.name
  THEN ReadAttributes(t, a.at, Append(attributes, <<a.name, a.value>>))
  ELSE Tag(attributes, "failed", Eof(t))

\* TiXmlDeclaration::Parse does not belong to a document when its attributes
\* are read, and sets no error when it fails.
RECURSIVE ReadDeclaration(_, _, _)
ReadDeclaration(t, p, version) ==
  LET q == SkipWhiteSpace(t, p)
      a == ParseAttribute(t, q)
  IN CASE At(t, p) \in {">", Nul} ->
            [node |-> Node("declaration", version, <<>>, <<>>), at |-> p + 1, error |-> FALSE]
       [] At(t, p) \notin {">", Nul} /\ At(t, q) = "version" -> ReadDeclaration(t, a.at, a.value)
       [] OTHER -> ReadDeclaration(t, FirstFrom(t, q, LAMBDA c : c \in White \cup {">"}), version)

\* Comments, CDATA and what TinyXML does not know: everything up to endTag, and
\* no error if that is missing.
ReadRaw(kind, t, p, endTag) ==
  LET ends == {k \in p .. Len(t) : HasAt(t, k, endTag)}
      stop == IF ends = {} THEN Eof(t) ELSE CHOOSE k \in ends : \A j \in ends : k <= j
  IN [node |-> Node(kind, SubSeq(t, p, stop - 1), <<>>, <<>>),
      at |-> IF ends = {} THEN Eof(t) ELSE stop + Len(endTag), error |-> FALSE]

\* Mutated Closed: the end of the file ends an element, too.
ClosedByTheEnd(t, p, name) == HasAt(t, p, <<"<", "/">> \o name) \/ At(t, p) = Nul

\* The end tag of an element of that name.
Closed(t, p, name) ==
  /\ HasAt(t, p, <<"<", "/">> \o name)
  /\ At(t, SkipWhiteSpace(t, p + 2 + Len(name))) = ">"

RECURSIVE ParseElement(_, _), ReadValue(_, _, _)

\* Identify, and the Parse of the class it finds.
ParseNode(t, p) ==
  LET mark == At(t, p + 1)
  IN CASE mark = "?xml"     -> ReadDeclaration(t, p + 2, <<>>)
       [] mark = "!--"      -> ReadRaw("comment", t, p + 2, <<"--", ">">>)
       [] mark = "![CDATA[" -> ReadRaw("cdata", t, p + 2, <<"]]", ">">>)
       [] mark \in Letters \cup DOMAIN Named -> ParseElement(t, p)
       [] OTHER             -> ReadRaw("unknown", t, p + 1, <<">">>)

Element(name, tag, children, at, error) ==
  [node |-> Node("element", name, tag.attributes, children), at |-> at, error |-> error]

ParseEnd(t, name, tag, body) ==
  IF Closed(t, body.at, name)
  THEN Element(name, tag, body.children,
               SkipWhiteSpace(t, body.at + 2 + Len(name)) + 1, FALSE)
  ELSE Element(name, tag, body.children, Eof(t), TRUE)

ParseBody(t, name, tag) ==
  CASE tag.as = "failed" -> Element(name, tag, <<>>, Eof(t), TRUE)
    [] tag.as = "empty"  -> Element(name, tag, <<>>, tag.at, FALSE)
    [] tag.as = "open"   -> ParseEnd(t, name, tag, ReadValue(t, tag.at, <<>>))

ParseElement(t, p) ==
  LET n == ReadName(t, p + 1)
  IN ParseBody(t, n.name, ReadAttributes(t, n.at, <<>>))

\* TiXmlElement::ReadValue, with the children read so far.  The text before a
\* tag is a child unless it is blank.
ReadBehindText(t, read, children) ==
  ReadValue(t, IF At(t, read.at) = Nul THEN Eof(t) ELSE read.at - 1,
            IF ToSet(read.text) \subseteq White THEN children
            ELSE Append(children, Node("text", read.text, <<>>, <<>>)))

ReadBehind(t, child, children) == ReadValue(t, child.at, Append(children, child.node))

ReadValue(t, from, children) ==
  LET p == SkipWhiteSpace(t, from)
  IN CASE At(t, p) = Nul \/ HasAt(t, p, <<"<", "/">>) -> [children |-> children, at |-> p]
       [] At(t, p) \notin {Nul, "<"} ->
            ReadBehindText(t, ReadText(t, p, TRUE, <<"<">>), children)
       [] OTHER -> ReadBehind(t, ParseNode(t, p), children)

-----------------------------------------------------------------------------
(* Documents *)

\* TiXmlDocument::Parse: it stops where no tag begins, and is content if
\* anything was read.
RECURSIVE Parse(_, _, _), ParseBehind(_, _, _)
Parse(t, from, children) ==
  LET p == SkipWhiteSpace(t, from)
  IN IF At(t, p) # "<" THEN [children |-> children, error |-> children = <<>>]
     ELSE ParseBehind(t, ParseNode(t, p), children)

ParseBehind(t, child, children) ==
  IF child.error THEN [children |-> Append(children, child.node), error |-> TRUE]
  ELSE Parse(t, child.at, Append(children, child.node))

\* LoadFile: both ends of lines are made one.
RECURSIVE Normalised(_)
Normalised(t) ==
  IF t = <<>> THEN <<>>
  ELSE <<IF t[1] = "\r" THEN "\n" ELSE t[1]>>
       \o Normalised(SubSeq(t, IF HasAt(t, 1, <<"\r", "\n">>) THEN 3 ELSE 2, Len(t)))

LoadFile(t) == Parse(Normalised(t), 1, <<>>)

-----------------------------------------------------------------------------
(* Writing *)

\* Mutated EncodeString: what an entity stands for is written as it is.
EncodeNothing(value) == value

LooksLikeReference(value, k) ==
  value[k] = "&" /\ k < Len(value) /\ value[k + 1] \in DOMAIN HexRef

\* What has an entity is written as one, but for an ampersand before what looks
\* like a reference.
EncodeString(value) ==
  FlattenSeq([k \in DOMAIN value |->
    LET entities == {x \in {"#x0A;"} \cup DOMAIN Named : Entity[x] = value[k]}
    IN IF entities = {} \/ LooksLikeReference(value, k) THEN <<value[k]>>
       ELSE <<"&", CHOOSE x \in entities : TRUE>>])

PrintAttribute(a) ==
  LET quote == IF "\"" \in {a[2][k] : k \in DOMAIN a[2]} THEN <<"'">> ELSE <<"\"">>
  IN <<" ">> \o EncodeString(a[1]) \o <<"=">> \o quote \o EncodeString(a[2]) \o quote

Indent(depth) == [k \in 1 .. depth |-> " "]
IsText(node)  == node.kind \in {"text", "cdata"}

\* The three ways an element is written: <a />, <a>text</a>, and in lines.
RECURSIVE PrintNode(_, _)
PrintNode(node, depth) ==
  LET value == node.value
      tag == <<"<">> \o value \o FlattenSeq([k \in DOMAIN node.attributes |->
                                               PrintAttribute(node.attributes[k])])
      below == [k \in DOMAIN node.children |->
                  (IF IsText(node.children[k]) THEN <<>> ELSE <<"\n">>)
                  \o PrintNode(node.children[k], depth + 1)]
      close == <<"<", "/">> \o value \o <<">">>
  IN CASE node.kind = "text" -> EncodeString(value)
       [] node.kind = "cdata" -> <<"\n">> \o Indent(depth) \o <<"<", "![CDATA[">> \o value
                                  \o <<"]]", ">", "\n">>
       [] node.kind = "comment" -> Indent(depth) \o <<"<", "!--">> \o value \o <<"--", ">">>
       [] node.kind = "unknown" -> Indent(depth) \o <<"<">> \o value \o <<">">>
       [] node.kind = "declaration" ->
            <<"<", "?xml", " ">>
            \o (IF value = <<>> THEN <<>>
                ELSE <<"version", "=", "\"">> \o value \o <<"\"", " ">>) \o <<"?", ">">>
       [] OTHER ->
            Indent(depth) \o tag
            \o CASE node.children = <<>> -> <<" ", "/", ">">>
                 [] Len(node.children) = 1 /\ IsText(node.children[1]) ->
                      <<">">> \o PrintNode(node.children[1], depth + 1) \o close
                 [] OTHER -> <<">">> \o FlattenSeq(below) \o <<"\n">> \o Indent(depth) \o close

SaveFile(document) ==
  FlattenSeq([k \in DOMAIN document.children |-> PrintNode(document.children[k], 0) \o <<"\n">>])

-----------------------------------------------------------------------------
(* Character::initializeAttributes *)

\* The first of the nodes that passes the test, as a sequence of at most one.
FirstOf(nodes, Test(_)) ==
  LET found == SelectSeq(nodes, Test) IN IF found = <<>> THEN <<>> ELSE <<found[1]>>

RootElement(document) == FirstOf(document.children, LAMBDA n : n.kind = "element")

\* node->FirstChild(name)->FirstChild()->Value(), as a sequence of at most one:
\* nodes of any kind with that value, and whatever is in the first.
ValueOf(node, name) ==
  LET child == FirstOf(node.children, LAMBDA n : n.value = <<name>>)
      first == IF child = <<>> THEN <<>> ELSE FirstOf(child[1].children, LAMBDA n : TRUE)
  IN [k \in DOMAIN first |-> first[k].value]

Soldier(document) ==
  LET root == RootElement(document)
  IN IF root = <<>> THEN <<>>
     ELSE FirstOf(root[1].children, LAMBDA n : n.kind = "element" /\ n.value = <<"soldier">>)

Missing(node) == \E k \in DOMAIN Attributes : ValueOf(node, Attributes[k]) = <<>>

\* What becomes of the five attributes of a soldier that is bought.  If the file
\* does not load, that is printed, and the soldier goes into the game with what
\* its memory held.  A missing node is an assertion, or is followed all the same.
InitializeAttributes(document) ==
  LET type == Soldier(document)
      Becomes(outcome, values) == [outcome |-> outcome, values |-> values]
  IN CASE document.error -> Becomes("uninitialised", <<>>)
       [] ~ document.error /\ (type = <<>> \/ Missing(type[1])) ->
            Becomes("program ends", <<>>)
       [] OTHER -> Becomes("assigned",
                     [k \in DOMAIN Attributes |-> ValueOf(type[1], Attributes[k])])

-----------------------------------------------------------------------------
(* A file that is edited by hand, or written in part *)

VARIABLES file, text, edits

vars == <<file, text, edits>>

Init == file \in Files /\ text = file.text /\ edits = 0

Edit == edits < file.edits /\ edits' = edits + 1 /\ UNCHANGED file

Insert == /\ Edit
          /\ \E k \in 0 .. Len(text), c \in file.inserted :
               text' = SubSeq(text, 1, k) \o c \o SubSeq(text, k + 1, Len(text))

Delete == Edit /\ \E k \in DOMAIN text : text' = RemoveAt(text, k)

Cut == Edit /\ \E k \in DOMAIN text : text' = SubSeq(text, 1, k - 1)

Next == Insert \/ Delete \/ Cut

Spec == Init /\ [][Next]_vars

-----------------------------------------------------------------------------
(* Properties *)

\* No value looks like a reference once it is written; no declaration has a
\* quote or an ampersand, for it is written as it is, in quotes; and no text has
\* the white space that is left around an ampersand that was dropped.
RECURSIVE Writable(_)
Writable(node) ==
  LET values == {node.value} \cup {node.attributes[k][2] : k \in DOMAIN node.attributes}
      v == node.value
  IN /\ \A u \in values : \A k \in DOMAIN u : ~ LooksLikeReference(u, k)
     /\ node.kind = "declaration" => \A k \in DOMAIN v : v[k] \notin {"\"", "&"}
     /\ node.kind = "text" => \A k \in DOMAIN v :
                                v[k] = " " => k > 1 /\ k < Len(v) /\ v[k + 1] # " "
     /\ \A k \in DOMAIN node.children : Writable(node.children[k])

\* What was read without an error is the same when it is written and read again:
\* indentation, line ends, entities and the two kinds of quotes lose nothing.
Kept(document) ==
  ~ document.error /\ (\A k \in DOMAIN document.children : Writable(document.children[k]))
    => LoadFile(SaveFile(document)) = document

RoundTrip == Kept(LoadFile(text))

\* A file that was written in part is not taken for a shorter whole one: either
\* all five values are those of the whole file, or nothing is read from it.  Its
\* root element is not closed, and that is an error.  (It does not follow that the
\* game has the values of the whole file or none: after that error it goes on with
\* attributes that were never assigned, "uninitialised".)
ReadsAllOrNothing ==
  [][(\E k \in DOMAIN text : text' = SubSeq(text, 1, k - 1)) =>
       LET part == InitializeAttributes(LoadFile(text'))
       IN part.outcome = "assigned" => part = InitializeAttributes(LoadFile(text))]_vars
=============================================================================
