-------------------------- MODULE PoguesTransforms --------------------------
(***************************************************************************)
(* The REST resource /transform: a request sends a document through a      *)
(* PipeLine of conversions.  Some conversions are done here, most by the   *)
(* Eno web service, and the last one may publish an XForm in Stromae (the  *)
(* answer is its URI) or write a PDF (the answer is the file).             *)
(*                                                                         *)
(* The PipeLine is an object of the request.  What requests share is what  *)
(* is published, one form per lower-cased data collection and survey name, *)
(* and the file of the PDF, the same for everybody.                        *)
(***************************************************************************)
EXTENDS Naturals, Sequences, SequencesExt

CONSTANTS
    Threads,   \* request threads
    Documents, \* questionnaires, whatever format they are in
    Blocks,    \* Blocks[d]: how many writes the PDF of d takes
    Names,     \* what clients put in a path for data collection and questionnaire
    LowerCase, \* LowerCase[n]: the key a form of name n is published under
    Requests,  \* what clients send: an operation, a body and a name
    Faulty,    \* whether remote calls and writes may fail
    Null       \* nothing

Keys == {LowerCase[n] : n \in Names}

\* What a conversion takes and what it makes of it.
Conversion ==
    [jsonToXML         |-> [from |-> "json",  to |-> "xml"],
     xmlToJson         |-> [from |-> "xml",   to |-> "json"],
     poguesXMLToDDI    |-> [from |-> "xml",   to |-> "ddi"],
     ddiToXForm        |-> [from |-> "ddi",   to |-> "xform"],
     ddiToOdt          |-> [from |-> "ddi",   to |-> "odt"],
     ddiToFo           |-> [from |-> "ddi",   to |-> "fo"],
     xformToXformsHack |-> [from |-> "xform", to |-> "form"],
     xformToUri        |-> [from |-> "form",  to |-> "uri"],
     foToPdf           |-> [from |-> "fo",    to |-> "pdf"]]

\* The operations of the resource, as the chains they build.
Chain ==
    [visualize |-> <<"jsonToXML", "poguesXMLToDDI", "ddiToXForm", "xformToXformsHack", "xformToUri">>,
     visualizeFromDDI |-> <<"ddiToXForm", "xformToXformsHack", "xformToUri">>,
     visualizeSpec |-> <<"jsonToXML", "poguesXMLToDDI", "ddiToOdt">>,
     visualizeDDI |-> <<"jsonToXML", "poguesXMLToDDI">>,
     visualizePDF |-> <<"jsonToXML", "poguesXMLToDDI", "ddiToFo", "foToPdf">>,
     ddi2pdf |-> <<"ddiToFo", "foToPdf">>,
     fo2pdf |-> <<"foToPdf">>,
     json2xml |-> <<"jsonToXML">>,
     xml2json |-> <<"xmlToJson">>,
     xform2uri |-> <<"xformToUri">>]

\* "form" is the XForm as the two stylesheets of xformToXformsHack leave it.
XMLFormats == {"xml", "ddi", "xform", "form", "odt", "fo"}
Formats == XMLFormats \cup {"json", "uri", "pdf"}

\* Texts that are no document of ours, a client's or the error of a web service:
\* "text" is no XML, "markup" is well-formed, such as an error page in XHTML.
Text == [format |-> "text", doc |-> Null]
Markup == [format |-> "markup", doc |-> Null]
Errors == {Text, Markup}

\* A document in a format, one of the texts above, or the URI of published markup.
Texts == [format : Formats, doc : Documents] \cup Errors \cup {[format |-> "uri", doc |-> Null]}

IsXML(text) == text.format \in XMLFormats \cup {"markup"}

\* Exceptions that are not turned into a PoguesException.
Unmapped == 0

ASSUME RequestsAssumption ==
    /\ \A r \in Requests : /\ r.op \in DOMAIN Chain
                           /\ r.body \in Texts
                           /\ r.body.format \notin {"uri", "pdf"}
                           /\ r.name \in Names
    /\ \A d \in Documents : Blocks[d] \in Nat \ {0}
    /\ Null \notin Documents
    /\ Null \notin Requests
    /\ Null \notin {200, 500, Unmapped}
    /\ Faulty \in BOOLEAN

VARIABLES
    pc,       \* pc[t]: what thread t does next
    request,  \* request[t]: the request it serves
    todo,     \* todo[t]: the conversions its PipeLine has left
    output,   \* output[t]: field of that PipeLine, the text so far
    written,  \* written[t]: the blocks t has written of its PDF
    answer,   \* answer[t]: the status, the text and the file's blocks it answers
    forms,    \* external: forms[k] is the text published in Stromae under k
    file,     \* form-final-out.pdf: each block the document it shows a part of
    crossed   \* history: threads that used the file beside another one

vars == <<pc, request, todo, output, written, answer, forms, file, crossed>>
-----------------------------------------------------------------------------
Answers == [status : {200, 500, Unmapped, Null},
            text   : Texts \cup {Null},
            blocks : Seq(Documents \cup {Null})]
NoAnswer == [status |-> Null, text |-> Null, blocks |-> <<>>]

\* The threads that write the file, are about to send it or do.
UsingFile ==
    {t \in Threads : \/ pc[t] \in {"write", "read"}
                     \/ pc[t] = "convert" /\ output[t].format = "pdf"}

Init ==
    /\ pc = [t \in Threads |-> "idle"]
    /\ request = [t \in Threads |-> Null]
    /\ todo = [t \in Threads |-> <<>>]
    /\ output = [t \in Threads |-> Null]
    /\ written = [t \in Threads |-> 0]
    /\ answer = [t \in Threads |-> NoAnswer]
    /\ forms = [k \in Keys |-> Null]
    /\ file = <<>>
    /\ crossed = {}

\* from(...) and the calls of map(...): nothing is converted yet.
Receive(t) ==
    /\ pc[t] = "idle"
    /\ \E r \in Requests :
        /\ request' = [request EXCEPT ![t] = r]
        /\ todo' = [todo EXCEPT ![t] = Chain[r.op]]
        /\ output' = [output EXCEPT ![t] = r.body]
    /\ pc' = [pc EXCEPT ![t] = "convert"]
    /\ UNCHANGED <<written, answer, forms, file, crossed>>

\* It is the turn of conversion c in transform().
Turn(t, c) == pc[t] = "convert" /\ todo[t] # <<>> /\ Head(todo[t]) = c

\* Mutant of Convert: the conversions are run from the last one.
ConvertFromTheEnd(t, text) ==
    /\ output' = [output EXCEPT ![t] = text]
    /\ todo' = [todo EXCEPT ![t] = Front(@)]
    /\ pc' = [pc EXCEPT ![t] = "convert"]
    /\ UNCHANGED answer

\* A conversion leaves text behind and the next one is run.
Convert(t, text) ==
    /\ output' = [output EXCEPT ![t] = text]
    /\ todo' = [todo EXCEPT ![t] = Tail(@)]
    /\ pc' = [pc EXCEPT ![t] = "convert"]
    /\ UNCHANGED answer

\* Mutant of Abort: the exception of a conversion is logged and left at that.
AbortOnlyStage(t) ==
    /\ todo' = [todo EXCEPT ![t] = Tail(@)]
    /\ pc' = [pc EXCEPT ![t] = "convert"]
    /\ UNCHANGED <<output, answer>>

\* A conversion throws, and with it transform(): the rest of the chain is not
\* run.  Two operations let the exception go as it is.
Abort(t) ==
    /\ answer' = [answer EXCEPT ![t].status =
                     IF request[t].op \in {"fo2pdf", "xform2uri"} THEN Unmapped ELSE 500]
    /\ pc' = [pc EXCEPT ![t] = "done"]
    /\ UNCHANGED <<output, todo>>

\* A conversion the back office does itself.
ConvertHere(t, c) ==
    /\ Turn(t, c)
    /\ IF output[t].format = Conversion[c].from
       THEN Convert(t, [output[t] EXCEPT !.format = Conversion[c].to])
       ELSE Abort(t)
    /\ UNCHANGED <<request, written, forms, file, crossed>>

\* One it asks Eno for.  The status of Eno's response is not looked at: the text
\* of an error is what the conversion gives.
CallEno(t, c) ==
    /\ Turn(t, c)
    /\ \/ /\ output[t].format = Conversion[c].from
          /\ Convert(t, [output[t] EXCEPT !.format = Conversion[c].to])
       \/ /\ Faulty \/ output[t].format # Conversion[c].from
          /\ \E error \in Errors : Convert(t, error)
       \/ /\ Faulty
          /\ Abort(t)
    /\ UNCHANGED <<request, written, forms, file, crossed>>

JsonToXML(t) == ConvertHere(t, "jsonToXML")
XmlToJson(t) == ConvertHere(t, "xmlToJson")
PoguesXMLToDDI(t) == CallEno(t, "poguesXMLToDDI")
DDIToXForm(t) == CallEno(t, "ddiToXForm")
DDIToODT(t) == CallEno(t, "ddiToOdt")
DDIToFO(t) == CallEno(t, "ddiToFo")

\* The two stylesheets adapt an XForm and copy any other XML nearly as it is: an
\* error page in well-formed XML goes through.  What is not XML throws, and so may
\* a copy, of an element whose prefix the stylesheets do not declare.
XFormsToXFormsHack(t) ==
    /\ Turn(t, "xformToXformsHack")
    /\ \/ /\ output[t].format = "xform"
          /\ Convert(t, [output[t] EXCEPT !.format = "form"])
       \/ /\ output[t].format # "xform" /\ IsXML(output[t])
          /\ Convert(t, output[t])
       \/ /\ output[t].format # "xform"
          /\ Abort(t)
    /\ UNCHANGED <<request, written, forms, file, crossed>>

\* Stromae stores the text under the key, in place of the one before, if it is
\* XML, then takes the personal data out of the form, which fails if there are
\* none, and answers the URI.  Here too the status of its response is not looked
\* at, and the call may fail after the form was stored.
XFormToURI(t) ==
    LET key == LowerCase[request[t].name] IN
    /\ Turn(t, "xformToUri")
    /\ \/ /\ IsXML(output[t])
          /\ forms' = [forms EXCEPT ![key] = output[t]]
          /\ \/ Convert(t, [output[t] EXCEPT !.format = "uri"])
             \/ /\ Faulty \/ output[t].format \notin {"xform", "form"}
                /\ \E error \in Errors : Convert(t, error)
             \/ Faulty /\ Abort(t)
       \/ /\ Faulty \/ ~IsXML(output[t])
          /\ \E error \in Errors : Convert(t, error)
          /\ UNCHANGED forms
       \/ /\ Faulty
          /\ Abort(t)
          /\ UNCHANGED forms
    /\ UNCHANGED <<request, written, file, crossed>>

\* Mutant of OpenPDF: the file is opened for writing and not cut to nothing.
OpenPDFAsItIs(t) ==
    /\ Turn(t, "foToPdf")
    /\ written' = [written EXCEPT ![t] = 0]
    /\ crossed' = IF UsingFile = {} THEN crossed \ {t} ELSE crossed \cup UsingFile \cup {t}
    /\ pc' = [pc EXCEPT ![t] = "write"]
    /\ UNCHANGED <<request, todo, output, answer, forms, file>>

\* FOToPDF opens its output, which empties the file, before it looks at the FO;
\* what comes before, or the opening, may fail.
OpenPDF(t) ==
    /\ Turn(t, "foToPdf")
    /\ \/ /\ file' = <<>>
          /\ written' = [written EXCEPT ![t] = 0]
          /\ crossed' = IF UsingFile = {} THEN crossed \ {t} ELSE crossed \cup UsingFile \cup {t}
          /\ pc' = [pc EXCEPT ![t] = "write"]
          /\ UNCHANGED <<todo, output, answer>>
       \/ /\ Faulty
          /\ Abort(t)
          /\ UNCHANGED <<written, file, crossed>>
    /\ UNCHANGED <<request, forms>>

\* A stream writes the block at position p, over what is there; what lies
\* between the end of the file and p reads as zeros.
Put(p, d) ==
    [i \in 1 .. (IF p > Len(file) THEN p ELSE Len(file)) |->
        IF i = p THEN d ELSE IF i <= Len(file) THEN file[i] ELSE Null]

\* Every thread writes through a stream of its own, with a position of its own.
WritePDF(t) ==
    LET d == output[t].doc IN
    /\ pc[t] = "write"
    /\ \/ /\ output[t].format = "fo"
          /\ written[t] < Blocks[d]
          /\ file' = Put(written[t] + 1, d)
          /\ written' = [written EXCEPT ![t] = @ + 1]
          /\ UNCHANGED <<pc, todo, output, answer>>
       \/ /\ output[t].format = "fo"
          /\ written[t] = Blocks[d]
          /\ Convert(t, [output[t] EXCEPT !.format = "pdf"])
          /\ UNCHANGED <<file, written>>
       \/ /\ output[t].format # "fo" \/ Faulty
          /\ Abort(t)
          /\ UNCHANGED <<file, written>>
    /\ UNCHANGED <<request, forms, crossed>>

\* The chain is at its end.  The text is the answer, or the file is, which is
\* sent once the resource method has returned.
Finish(t) ==
    /\ pc[t] = "convert"
    /\ todo[t] = <<>>
    /\ answer' = [answer EXCEPT ![t].status = 200, ![t].text = output[t]]
    /\ pc' = [pc EXCEPT ![t] = IF output[t].format = "pdf" THEN "read" ELSE "done"]
    /\ UNCHANGED <<request, todo, output, written, forms, file, crossed>>

\* The file is sent block by block, to the end it has by then.
SendFile(t) ==
    LET sent == answer[t].blocks IN
    /\ pc[t] = "read"
    /\ IF Len(sent) < Len(file)
       THEN /\ answer' = [answer EXCEPT ![t].blocks = Append(sent, file[Len(sent) + 1])]
            /\ UNCHANGED pc
       ELSE /\ pc' = [pc EXCEPT ![t] = "done"]
            /\ UNCHANGED answer
    /\ UNCHANGED <<request, todo, output, written, forms, file, crossed>>

\* The thread goes back to its pool.
Return(t) ==
    /\ pc[t] = "done"
    /\ pc' = [pc EXCEPT ![t] = "idle"]
    /\ request' = [request EXCEPT ![t] = Null]
    /\ todo' = [todo EXCEPT ![t] = <<>>]
    /\ output' = [output EXCEPT ![t] = Null]
    /\ written' = [written EXCEPT ![t] = 0]
    /\ answer' = [answer EXCEPT ![t] = NoAnswer]
    /\ crossed' = crossed \ {t}
    /\ UNCHANGED <<forms, file>>

Next ==
    \E t \in Threads :
        \/ Receive(t)
        \/ JsonToXML(t)
        \/ XmlToJson(t)
        \/ XFormsToXFormsHack(t)
        \/ PoguesXMLToDDI(t)
        \/ DDIToXForm(t)
        \/ DDIToODT(t)
        \/ DDIToFO(t)
        \/ XFormToURI(t)
        \/ OpenPDF(t)
        \/ WritePDF(t)
        \/ Finish(t)
        \/ SendFile(t)
        \/ Return(t)

Spec == Init /\ [][Next]_vars
-----------------------------------------------------------------------------
(***************************************************************************)
(* Properties.                                                             *)
(***************************************************************************)

\* The values the variables take; the conversions a thread has left are the
\* last ones of the chain of its operation.
TypeOK ==
    /\ pc \in [Threads -> {"idle", "convert", "write", "read", "done"}]
    /\ request \in [Threads -> Requests \cup {Null}]
    /\ todo \in [Threads -> Seq(DOMAIN Conversion)]
    /\ output \in [Threads -> Texts \cup {Null}]
    /\ written \in [Threads -> Nat]
    /\ answer \in [Threads -> Answers]
    /\ file \in Seq(Documents \cup {Null})
    /\ forms \in [Keys -> Texts \cup {Null}]
    /\ crossed \subseteq Threads
    /\ \A t \in Threads :
          /\ answer[t].status # Null <=> pc[t] \in {"read", "done"}
          /\ request[t] = Null <=> pc[t] = "idle"
          /\ request[t] # Null => IsSuffix(todo[t], Chain[request[t].op])

\* A text that is answered is what the whole chain makes of the body that was
\* sent; the error text of a web service only where the chain ends in a call of
\* one; and the URI of published markup only where a form was to be published.
\* So no half-converted document and no other request's is answered, and the
\* error of a conversion on the way is only ever answered as such a URI.
AnswerIsConvertedBody ==
    \A t \in Threads :
        pc[t] = "done" /\ answer[t].status = 200 =>
            LET end == Last(Chain[request[t].op]) IN
            \/ answer[t].text = [format |-> Conversion[end].to, doc |-> request[t].body.doc]
            \/ answer[t].text \in Errors /\ end \in {"poguesXMLToDDI", "ddiToOdt", "xformToUri"}
            \/ /\ answer[t].text = [format |-> "uri", doc |-> Null]
               /\ request[t].op \in {"visualize", "visualizeFromDDI"}

\* What is published under a key comes from a request for that key: the XML a
\* client asked to publish, or what is left of a questionnaire whose conversions
\* have all been run: its own XForm, adapted, or the error page one of them gave if
\* that is well-formed XML.  Never a questionnaire converted part of the way, an
\* XForm that was not adapted, or an error text that is not XML.
PublishedIsConverted ==
    [][\A k \in Keys : forms'[k] # forms[k] =>
          \E t \in Threads :
              /\ Turn(t, "xformToUri")
              /\ LowerCase[request[t].name] = k
              /\ IF request[t].op = "xform2uri"
                 THEN forms'[k] = request[t].body /\ IsXML(forms'[k])
                 ELSE forms'[k] \in {[format |-> "form", doc |-> request[t].body.doc], Markup}]_vars

SentPdf(t) == answer[t].status = 200 /\ answer[t].text.format = "pdf"

\* A PDF that was written and sent while no other request wrote or sent one is
\* the whole PDF of the questionnaire sent and nothing else, also where an
\* earlier request failed half way or left a longer file.
PdfIsOwnAlone ==
    \A t \in Threads :
        pc[t] = "done" /\ SentPdf(t) /\ t \notin crossed =>
            answer[t].blocks = [i \in 1 .. Blocks[request[t].body.doc] |-> request[t].body.doc]

(***************************************************************************)
(* Statements of the repository the code departs from.                     *)
(***************************************************************************)

\* The PDF of a questionnaire is documented to be that of the entity sent.
PdfIsOwn ==
    \A t \in Threads :
        pc[t] = "done" /\ SentPdf(t) =>
            \A i \in DOMAIN answer[t].blocks : answer[t].blocks[i] = request[t].body.doc

\* "Get visualization URI from JSON serialized Pogues entity": a preview answered
\* is documented to be one of the entity sent, and not of an error page.
UriIsOfEntity ==
    \A t \in Threads :
        pc[t] = "done" /\ answer[t].status = 200 /\ request[t].op = "visualize" =>
            answer[t].text = [format |-> "uri", doc |-> request[t].body.doc]
=============================================================================
