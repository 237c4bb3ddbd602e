----------------------- MODULE PoguesTransformsProofs -----------------------
(***************************************************************************)
(* Theorems about PoguesTransforms, for any threads, questionnaires, sizes *)
(* of their PDFs, names and requests, with and without failures.  Of a     *)
(* thread the invariant says how far it is in the chain of its operation   *)
(* and that its text is what the conversions run so far make of the body   *)
(* (Serving); of the file, that a thread which has had it to itself is the *)
(* only one to use it and has written nothing but its own PDF (OwnFile).   *)
(***************************************************************************)
EXTENDS PoguesTransforms, TLAPS

Steps == {"idle", "convert", "write", "read", "done"}

\* Conversions that may leave the error text of a web service behind.
Remote == {"poguesXMLToDDI", "ddiToXForm", "ddiToOdt", "ddiToFo", "xformToUri"}

(***************************************************************************)
(* Facts about the table of conversions and the chains.                    *)
(***************************************************************************)
LEMMA ConversionShape ==
    ASSUME NEW c \in DOMAIN Conversion
    PROVE  /\ Conversion[c].to \in Formats
           /\ Conversion[c].to = "pdf" => c = "foToPdf"
           /\ Conversion[c].from \in Formats \ {"uri"}
BY DEF Conversion, Formats, XMLFormats

\* A PDF is made, and a form published, at the end of a chain only; what is
\* published at the end of a longer one has just been adapted, and is what DDIToXForm
\* left.
LEMMA ChainShape ==
    ASSUME NEW op \in DOMAIN Chain
    PROVE  /\ Chain[op] \in Seq(DOMAIN Conversion)
           /\ Len(Chain[op]) \in Nat \ {0}
           /\ \A k \in 1 .. Len(Chain[op]) :
                Chain[op][k] \in {"foToPdf", "xformToUri"} => k = Len(Chain[op])
           /\ \A k \in 1 .. Len(Chain[op]) :
                /\ Chain[op][k] = "xformToUri" =>
                      IF k = 1 THEN op = "xform2uri"
                      ELSE op \in {"visualize", "visualizeFromDDI"} /\ Chain[op][k - 1] = "xformToXformsHack"
                /\ Chain[op][k] = "xformToXformsHack" => k > 1 /\ Chain[op][k - 1] = "ddiToXForm"
           /\ Chain[op][Len(Chain[op])] \in Remote =>
                Chain[op][Len(Chain[op])] \in {"poguesXMLToDDI", "ddiToOdt", "xformToUri"}
           /\ Chain[op][Len(Chain[op])] # "xformToXformsHack"
<1> USE DEF Chain, Conversion, Remote
<1>1. CASE op = "visualize"
    <2>1. /\ Chain[op] \in Seq(DOMAIN Conversion) /\ Len(Chain[op]) = 5
          /\ Chain[op][1] = "jsonToXML" /\ Chain[op][2] = "poguesXMLToDDI"
          /\ Chain[op][3] = "ddiToXForm" /\ Chain[op][4] = "xformToXformsHack"
          /\ Chain[op][5] = "xformToUri"
        BY <1>1
    <2>2. \A k \in 1 .. 5 : k \in {1, 2, 3, 4, 5}
        OBVIOUS
    <2> QED
        BY ONLY <1>1, <2>1, <2>2
<1>2. CASE op = "visualizeFromDDI"
    BY <1>2
<1>3. CASE op = "visualizeSpec"
    BY <1>3
<1>4. CASE op = "visualizeDDI"
    BY <1>4
<1>5. CASE op = "visualizePDF"
    BY <1>5
<1>6. CASE op = "ddi2pdf"
    BY <1>6
<1>7. CASE op \in {"fo2pdf", "json2xml", "xml2json", "xform2uri"}
    BY <1>7
<1> QED
    BY <1>1, <1>2, <1>3, <1>4, <1>5, <1>6, <1>7

\* A text in a format, after a conversion to another one.
LEMMA Reformatted ==
    ASSUME NEW x \in Texts, x.format \in Formats \ {"uri"}, NEW f \in Formats
    PROVE  /\ [x EXCEPT !.format = f] = [format |-> f, doc |-> x.doc]
           /\ [x EXCEPT !.format = f] \in Texts
BY DEF Texts, Errors, Text, Markup, Formats, XMLFormats

LEMMA FormatOfText ==
    ASSUME NEW x \in Texts
    PROVE  /\ x.format \in Formats \ {"uri"} => x \notin Errors /\ x.doc \in Documents
           /\ IsXML(x) => x.format \in XMLFormats \/ x = Markup
BY DEF Texts, Errors, Text, Markup, IsXML, Formats, XMLFormats

LEMMA RequestShape ==
    ASSUME NEW r \in Requests
    PROVE  /\ r.op \in DOMAIN Chain
           /\ r.body \in Texts
           /\ r.body.format \notin {"uri", "pdf"}
           /\ r.name \in Names
           /\ r # Null
BY RequestsAssumption
-----------------------------------------------------------------------------
(***************************************************************************)
(* The invariant of one thread.                                            *)
(***************************************************************************)
Ran(t) == Len(Chain[request[t].op]) - Len(todo[t])

\* What is left to do is the end of the chain.
IsEnd(t) ==
    /\ Ran(t) \in 0 .. Len(Chain[request[t].op])
    /\ \A i \in 1 .. Len(todo[t]) : todo[t][i] = Chain[request[t].op][Ran(t) + i]

\* What conversion c, the last one that was run, has left of the body of t.
Left(t, c, text) ==
    \/ /\ request[t].body.doc \in Documents
       /\ text = [format |-> Conversion[c].to, doc |-> request[t].body.doc]
    \/ text \in Errors /\ c \in Remote
    \/ text = Markup /\ c = "xformToXformsHack"
    \/ /\ text = [format |-> "uri", doc |-> Null] /\ c = "xformToUri"
       /\ request[t].op \in {"visualize", "visualizeFromDDI"} \/ request[t].body.doc = Null

Carried(t) ==
    IF Ran(t) = 0
    THEN output[t] = request[t].body
    ELSE Left(t, Chain[request[t].op][Ran(t)], output[t])

Serving(t) ==
    /\ pc[t] # "idle" => IsEnd(t)
    /\ pc[t] \in {"convert", "write"} => Carried(t) /\ answer[t] = NoAnswer
    /\ pc[t] = "write" => todo[t] # <<>> /\ Head(todo[t]) = "foToPdf"
    /\ pc[t] = "idle" => answer[t] = NoAnswer
    /\ pc[t] \in {"read", "done"} /\ answer[t].status = 200 =>
          Left(t, Last(Chain[request[t].op]), answer[t].text)
    /\ pc[t] = "read" => answer[t].status = 200 /\ answer[t].text.format = "pdf"

Inv == TypeOK /\ \A t \in Threads : Serving(t)

\* The end of a chain, as SequencesExt has it.
LEMMA EndIsSuffix ==
    ASSUME NEW S, NEW s \in Seq(S), NEW c \in Seq(S), Len(c) - Len(s) \in 0 .. Len(c),
           \A i \in 1 .. Len(s) : s[i] = c[Len(c) - Len(s) + i]
    PROVE  IsSuffix(s, c)
<1>1. Len(s) \in Nat /\ Len(c) \in Nat /\ Len(s) <= Len(c)
    OBVIOUS
<1>2. Reverse(s) \in Seq(S) /\ Len(Reverse(s)) = Len(s)
    BY DEF Reverse
<1>3. Reverse(c) \in Seq(S) /\ Len(Reverse(c)) = Len(c)
    BY DEF Reverse
<1>4. \A i \in 1 .. Len(s) : Reverse(s)[i] = Reverse(c)[i]
    BY <1>1 DEF Reverse
<1>5. SubSeq(Reverse(s), 1, Len(s)) = SubSeq(Reverse(c), 1, Len(s))
    BY <1>1, <1>2, <1>3, <1>4
<1> QED
    BY <1>1, <1>2, <1>3, <1>5 DEF IsSuffix, IsPrefix

LEMMA InitInv == Init => Inv
<1> SUFFICES ASSUME Init PROVE Inv
    OBVIOUS
<1>1. NoAnswer \in Answers
    BY DEF NoAnswer, Answers
<1>2. TypeOK
    BY <1>1, RequestsAssumption DEF Init, TypeOK, NoAnswer
<1>3. \A t \in Threads : Serving(t)
    BY DEF Init, Serving
<1> QED
    BY <1>2, <1>3 DEF Inv
-----------------------------------------------------------------------------
(***************************************************************************)
(* A step of one thread, in two parts: what it does to the thread itself   *)
(* (Keeps), and that it leaves the others alone.                           *)
(***************************************************************************)
\* The types of t, and of what all threads share, after a step of t.
Typed(t) ==
    /\ pc \in [Threads -> Steps]
    /\ request \in [Threads -> Requests \cup {Null}]
    /\ todo \in [Threads -> Seq(DOMAIN Conversion)]
    /\ output \in [Threads -> Texts \cup {Null}]
    /\ written \in [Threads -> Nat]
    /\ answer \in [Threads -> Answers]
    /\ answer[t].status # Null <=> pc[t] \in {"read", "done"}
    /\ request[t] = Null <=> pc[t] = "idle"

Local(t) == <<pc[t], request[t], todo[t], output[t], written[t], answer[t]>>

\* A step that keeps t as it should be, the shared variables typed and the other
\* threads as they were keeps the invariant.
LEMMA OneThreadIsEnough ==
    ASSUME Inv, NEW t \in Threads, Typed(t)', Serving(t)',
           \A u \in Threads \ {t} : UNCHANGED Local(u),
           file' \in Seq(Documents \cup {Null}),
           forms' \in [Keys -> Texts \cup {Null}],
           crossed' \subseteq Threads
    PROVE  Inv'
<1>1. ASSUME NEW u \in Threads \ {t}
      PROVE  Serving(u)' /\ Typed(u)'
    <2>1. UNCHANGED <<pc[u], request[u], todo[u], output[u], written[u], answer[u]>>
        BY <1>1 DEF Local
    <2>2. Serving(u)
        BY <1>1 DEF Inv
    <2>3. IsEnd(u) => IsEnd(u)'
        BY <2>1 DEF IsEnd, Ran
    <2>4. Carried(u) => Carried(u)'
        BY <2>1 DEF Carried, Ran, Left
    <2>5. Serving(u)'
        BY <2>1, <2>2, <2>3, <2>4 DEF Serving, Left, Last
    <2> QED
        BY <2>1, <2>5 DEF Inv, TypeOK, Typed
<1>2. \A u \in Threads : Serving(u)' /\ Typed(u)'
    BY <1>1
<1>3. ASSUME NEW u \in Threads, request'[u] # Null
      PROVE  IsSuffix(todo[u], Chain[request[u].op])'
    <2>1. request'[u] \in Requests /\ pc'[u] # "idle"
        BY <1>2, <1>3 DEF Typed
    <2>2. todo'[u] \in Seq(DOMAIN Conversion) /\ Chain[request'[u].op] \in Seq(DOMAIN Conversion)
        BY <1>2, <2>1, RequestShape, ChainShape DEF Typed
    <2>3. IsEnd(u)'
        BY <1>2, <2>1 DEF Serving
    <2>4. IsSuffix(todo'[u], Chain[request'[u].op])
        BY <2>2, <2>3, EndIsSuffix DEF IsEnd, Ran
    <2> QED
        BY <2>4
<1> QED
    BY <1>2, <1>3 DEF Inv, TypeOK, Typed, Steps

\* What the invariant says of a thread in the middle of its chain.
LEMMA Turning ==
    ASSUME Inv, NEW t \in Threads, pc[t] \in {"convert", "write"}
    PROVE  /\ request[t] \in Requests /\ request[t] # Null
           /\ todo[t] \in Seq(DOMAIN Conversion)
           /\ Chain[request[t].op] \in Seq(DOMAIN Conversion)
           /\ Len(Chain[request[t].op]) >= 1
           /\ output[t] \in Texts
           /\ IsEnd(t) /\ Carried(t) /\ answer[t] = NoAnswer
           /\ pc[t] = "write" => todo[t] # <<>> /\ Head(todo[t]) = "foToPdf"
<1>1. request[t] \in Requests /\ request[t] # Null
    BY DEF Inv, TypeOK
<1>2. IsEnd(t) /\ Carried(t) /\ answer[t] = NoAnswer
    BY DEF Inv, Serving
<1>3. Chain[request[t].op] \in Seq(DOMAIN Conversion) /\ Len(Chain[request[t].op]) >= 1
    BY <1>1, RequestShape, ChainShape
<1>4. todo[t] \in Seq(DOMAIN Conversion)
    BY DEF Inv, TypeOK
<1>5. output[t] \in Texts
    <2>1. CASE Ran(t) = 0
        BY <2>1, <1>1, <1>2, RequestShape DEF Carried
    <2>2. CASE Ran(t) # 0
        <3>1. Chain[request[t].op][Ran(t)] \in DOMAIN Conversion
            BY <2>2, <1>2, <1>3 DEF IsEnd
        <3> QED
            BY <2>2, <3>1, <1>2, ConversionShape DEF Carried, Left, Texts, Errors
    <2> QED
        BY <2>1, <2>2
<1> QED
    BY <1>1, <1>2, <1>3, <1>4, <1>5 DEF Inv, Serving

\* The conversion whose turn it is.
LEMMA NextConversion ==
    ASSUME Inv, NEW t \in Threads, pc[t] \in {"convert", "write"}, todo[t] # <<>>
    PROVE  /\ Head(todo[t]) \in DOMAIN Conversion
           /\ Ran(t) + 1 \in 1 .. Len(Chain[request[t].op])
           /\ Head(todo[t]) = Chain[request[t].op][Ran(t) + 1]
           /\ Tail(todo[t]) \in Seq(DOMAIN Conversion)
           /\ Len(Tail(todo[t])) = Len(todo[t]) - 1
           /\ \A i \in 1 .. Len(todo[t]) - 1 : Tail(todo[t])[i] = todo[t][i + 1]
<1> DEFINE s == todo[t]
           n == Len(Chain[request[t].op])
<1>1. /\ s \in Seq(DOMAIN Conversion) /\ n \in Nat /\ s # <<>>
      /\ n - Len(s) \in 0 .. n
      /\ \A i \in 1 .. Len(s) : s[i] = Chain[request[t].op][n - Len(s) + i]
    <2>1. IsEnd(t) /\ s \in Seq(DOMAIN Conversion) /\ Chain[request[t].op] \in Seq(DOMAIN Conversion)
        BY Turning
    <2>2. Ran(t) \in 0 .. n /\ \A i \in 1 .. Len(s) : s[i] = Chain[request[t].op][Ran(t) + i]
        BY <2>1 DEF IsEnd
    <2>3. Ran(t) = n - Len(s)
        BY DEF Ran
    <2>4. n \in Nat /\ s # <<>>
        BY <2>1
    <2> HIDE DEF s, n
    <2> QED
        BY <2>1, <2>2, <2>3, <2>4 DEF s
<1>2. Ran(t) = n - Len(s)
    BY DEF Ran
<1> HIDE DEF s, n
<1>3. Len(s) \in Nat \ {0} /\ Head(s) = s[1] /\ s[1] \in DOMAIN Conversion
    BY <1>1
<1>4. /\ Tail(s) \in Seq(DOMAIN Conversion) /\ Len(Tail(s)) = Len(s) - 1
      /\ \A i \in 1 .. Len(s) - 1 : Tail(s)[i] = s[i + 1]
    BY <1>1
<1>5. n - Len(s) + 1 \in 1 .. n
    BY <1>1, <1>3
<1>6. n - Len(s) + 1 = Ran(t) + 1 /\ Head(s) = Chain[request[t].op][Ran(t) + 1]
    BY <1>1, <1>2, <1>3
<1> QED
    BY <1>2, <1>3, <1>4, <1>5, <1>6 DEF s, n

\* A document in the output is that of the body.
LEMMA Output ==
    ASSUME Inv, NEW t \in Threads, pc[t] \in {"convert", "write"}, output[t].format \in Formats \ {"uri"}
    PROVE  /\ output[t].doc = request[t].body.doc
           /\ request[t].body.doc \in Documents
<1>1. output[t] \in Texts /\ Carried(t)
    BY Turning
<1>2. output[t].doc \in Documents /\ output[t] \notin Errors
    BY <1>1, FormatOfText
<1>3. CASE Ran(t) = 0
    BY <1>1, <1>2, <1>3 DEF Carried
<1>4. CASE Ran(t) # 0
    BY <1>1, <1>2, <1>4 DEF Carried, Left, Errors
<1> QED
    BY <1>3, <1>4

\* What the conversion before the one whose turn it is has left: an XForm for the
\* stylesheets to adapt, a form to be published, or an error text.
LEMMA Before ==
    ASSUME Inv, NEW t \in Threads
    PROVE  /\ Turn(t, "xformToXformsHack") => output[t].format = "xform" \/ output[t] \in Errors
           /\ Turn(t, "xformToUri") =>
                IF request[t].op = "xform2uri"
                THEN output[t] = request[t].body
                ELSE /\ request[t].op \in {"visualize", "visualizeFromDDI"}
                     /\ output[t] \in {[format |-> "form", doc |-> request[t].body.doc], Markup}
<1> SUFFICES ASSUME NEW c \in {"xformToXformsHack", "xformToUri"}, Turn(t, c)
             PROVE  IF c = "xformToXformsHack"
                    THEN output[t].format = "xform" \/ output[t] \in Errors
                    ELSE IF request[t].op = "xform2uri"
                    THEN output[t] = request[t].body
                    ELSE /\ request[t].op \in {"visualize", "visualizeFromDDI"}
                         /\ output[t] \in {[format |-> "form", doc |-> request[t].body.doc], Markup}
    OBVIOUS
<1> DEFINE op == request[t].op
<1>1. pc[t] = "convert" /\ todo[t] # <<>> /\ Head(todo[t]) = c
    BY DEF Turn
<1>2. op \in DOMAIN Chain /\ IsEnd(t) /\ Carried(t)
    BY <1>1, Turning, RequestShape
<1>3. Chain[op][Ran(t) + 1] = c /\ Ran(t) + 1 \in 1 .. Len(Chain[op])
    BY <1>1, NextConversion
<1>4. Ran(t) \in Nat /\ (Ran(t) + 1) - 1 = Ran(t)
    BY <1>2 DEF IsEnd
<1>5. /\ Conversion["ddiToXForm"].to = "xform" /\ Conversion["xformToXformsHack"].to = "form"
      /\ "xformToXformsHack" \notin Remote
    BY DEF Conversion, Remote
<1>6. CASE c = "xformToXformsHack"
    <2>1. Ran(t) # 0 /\ Chain[op][Ran(t)] = "ddiToXForm"
        BY <1>2, <1>3, <1>4, <1>6, ChainShape
    <2> QED
        BY <1>2, <1>5, <1>6, <2>1 DEF Carried, Left
<1>7. CASE c = "xformToUri" /\ Ran(t) = 0
    <2>1. op = "xform2uri"
        BY <1>2, <1>3, <1>7, ChainShape
    <2> QED
        BY <1>2, <1>7, <2>1 DEF Carried
<1>8. CASE c = "xformToUri" /\ Ran(t) # 0
    <2>1. op \in {"visualize", "visualizeFromDDI"} /\ Chain[op][Ran(t)] = "xformToXformsHack"
        BY <1>2, <1>3, <1>4, <1>8, ChainShape
    <2> QED
        BY <1>2, <1>5, <1>8, <2>1 DEF Carried, Left
<1> QED
    BY <1>6, <1>7, <1>8

\* A conversion that leaves the text it should keeps the invariant of its thread.
LEMMA ConvertKeeps ==
    ASSUME Inv, NEW t \in Threads, pc[t] \in {"convert", "write"}, todo[t] # <<>>,
           NEW text \in Texts, Left(t, Head(todo[t]), text), Convert(t, text),
           UNCHANGED request, written' \in [Threads -> Nat],
           \A u \in Threads \ {t} : written'[u] = written[u]
    PROVE  Typed(t)' /\ Serving(t)' /\ \A u \in Threads \ {t} : UNCHANGED Local(u)
<1>1. /\ pc'[t] = "convert" /\ todo'[t] = Tail(todo[t]) /\ output'[t] = text
      /\ \A u \in Threads \ {t} : UNCHANGED Local(u)
    BY DEF Convert, Inv, TypeOK, Local
<1>2. Typed(t)'
    <2>1. answer'[t].status = Null
        BY Turning DEF Convert, NoAnswer
    <2>2. request'[t] # Null /\ request' \in [Threads -> Requests \cup {Null}]
        BY Turning DEF Inv, TypeOK
    <2>3. todo' \in [Threads -> Seq(DOMAIN Conversion)]
        BY NextConversion DEF Inv, TypeOK, Convert
    <2>4. /\ pc' \in [Threads -> Steps] /\ output' \in [Threads -> Texts \cup {Null}]
          /\ answer' \in [Threads -> Answers]
        BY DEF Inv, TypeOK, Convert, Steps
    <2> QED
        BY <1>1, <2>1, <2>2, <2>3, <2>4 DEF Typed
<1>3. Ran(t)' = Ran(t) + 1 /\ Len(todo'[t]) = Len(todo[t]) - 1
    <2>1. Len(todo[t]) \in Nat /\ Len(Chain[request[t].op]) \in Nat
        BY Turning
    <2>2. Len(todo'[t]) = Len(todo[t]) - 1
        BY <1>1, NextConversion
    <2>3. Ran(t)' = Len(Chain[request[t].op]) - Len(todo'[t])
        BY DEF Ran
    <2> QED
        BY <2>1, <2>2, <2>3 DEF Ran
<1>4. IsEnd(t)'
    <2>1. Ran(t)' \in 0 .. Len(Chain[request[t].op])
        BY <1>3, NextConversion, Turning DEF IsEnd
    <2>2. ASSUME NEW i \in 1 .. Len(todo'[t])
          PROVE  todo'[t][i] = Chain[request[t].op][Ran(t)' + i]
        <3>1. /\ IsEnd(t) /\ Len(todo[t]) \in Nat /\ Ran(t) \in Int
              /\ \A k \in 1 .. Len(todo[t]) - 1 : Tail(todo[t])[k] = todo[t][k + 1]
            BY NextConversion, Turning DEF IsEnd
        <3>2. /\ i + 1 \in 1 .. Len(todo[t]) /\ i \in 1 .. Len(todo[t]) - 1
              /\ Ran(t)' + i = Ran(t) + (i + 1)
            BY <1>3, <3>1
        <3>3. todo'[t][i] = todo[t][i + 1]
            BY <1>1, <3>1, <3>2
        <3>4. todo[t][i + 1] = Chain[request[t].op][Ran(t) + (i + 1)]
            BY <3>1, <3>2 DEF IsEnd
        <3> QED
            BY <3>2, <3>3, <3>4
    <2> QED
        BY <2>1, <2>2 DEF IsEnd
<1>5. Carried(t)'
    BY <1>1, <1>3, NextConversion, Turning DEF Carried, Left, IsEnd
<1>6. answer'[t] = NoAnswer
    BY Turning DEF Convert
<1> QED
    BY <1>1, <1>2, <1>4, <1>5, <1>6 DEF Serving, NoAnswer

\* So does one that throws.
LEMMA AbortKeeps ==
    ASSUME Inv, NEW t \in Threads, pc[t] \in {"convert", "write"}, Abort(t),
           UNCHANGED <<request, written>>
    PROVE  Typed(t)' /\ Serving(t)' /\ \A u \in Threads \ {t} : UNCHANGED Local(u)
<1>1. /\ pc'[t] = "done" /\ answer'[t].status \in {500, Unmapped}
      /\ answer' \in [Threads -> Answers]
      /\ \A u \in Threads \ {t} : UNCHANGED Local(u)
    <2>1. PICK status \in {500, Unmapped} : answer' = [answer EXCEPT ![t].status = status]
        BY DEF Abort
    <2>2. answer \in [Threads -> Answers]
        BY DEF Inv, TypeOK
    <2>3. [answer[t] EXCEPT !.status = status] \in Answers
        <3>1. answer[t] \in Answers
            BY <2>2
        <3> QED
            BY <3>1 DEF Answers
    <2>4. answer' = [answer EXCEPT ![t] = [answer[t] EXCEPT !.status = status]]
        BY <2>1
    <2>5. answer'[t].status = status
        BY <2>2, <2>4 DEF Answers
    <2>6. \A u \in Threads \ {t} : UNCHANGED Local(u)
        BY <2>4, <2>2 DEF Abort, Inv, TypeOK, Local
    <2>7. answer' \in [Threads -> Answers]
        BY <2>2, <2>3, <2>4
    <2>8. pc'[t] = "done"
        BY DEF Abort, Inv, TypeOK
    <2> QED
        BY <2>5, <2>6, <2>7, <2>8
<1>2. Typed(t)'
    BY Turning, <1>1, RequestsAssumption DEF Inv, TypeOK, Typed, Abort, Steps
<1>3. IsEnd(t)'
    BY Turning DEF IsEnd, Ran, Abort
<1> QED
    BY <1>1, <1>2, <1>3 DEF Serving, Unmapped
-----------------------------------------------------------------------------
(***************************************************************************)
(* Every action keeps the invariant.                                       *)
(***************************************************************************)
LEMMA ReceiveKeeps ==
    ASSUME Inv, NEW t \in Threads, Receive(t)
    PROVE  Inv'
<1>1. PICK r \in Requests :
        /\ request' = [request EXCEPT ![t] = r]
        /\ todo' = [todo EXCEPT ![t] = Chain[r.op]]
        /\ output' = [output EXCEPT ![t] = r.body]
    BY DEF Receive
<1>2. /\ r.body \in Texts /\ r # Null /\ Chain[r.op] \in Seq(DOMAIN Conversion)
    BY RequestShape, ChainShape
<1>3. /\ pc'[t] = "convert" /\ request'[t] = r /\ todo'[t] = Chain[r.op] /\ output'[t] = r.body
      /\ answer'[t] = answer[t] /\ pc[t] = "idle"
    BY <1>1 DEF Receive, Inv, TypeOK
<1>4. Typed(t)'
    BY <1>1, <1>2, <1>3 DEF Receive, Inv, TypeOK, Typed, Steps
<1>5. Len(Chain[r.op]) \in Nat /\ Ran(t)' = Len(Chain[r.op]) - Len(Chain[r.op])
    BY <1>2, <1>3 DEF Ran
<1>6. IsEnd(t)' /\ Carried(t)'
    BY <1>2, <1>3, <1>5 DEF IsEnd, Carried
<1>7. answer'[t] = NoAnswer
    BY <1>3 DEF Inv, Serving
<1>8. Serving(t)'
    BY <1>3, <1>6, <1>7 DEF Serving
<1>9. \A u \in Threads \ {t} : UNCHANGED Local(u)
    BY <1>1 DEF Receive, Local, Inv, TypeOK
<1> QED
    BY <1>4, <1>8, <1>9, OneThreadIsEnough DEF Receive, Inv, TypeOK

\* A conversion done here or by Eno leaves what it should, or throws.
LEMMA ConversionKeeps ==
    ASSUME Inv, NEW t \in Threads, NEW c, Turn(t, c),
           \/ /\ output[t].format = Conversion[c].from
              /\ Convert(t, [output[t] EXCEPT !.format = Conversion[c].to])
           \/ c \in Remote /\ \E error \in Errors : Convert(t, error)
           \/ c = "xformToXformsHack" /\ Convert(t, Markup)
           \/ Abort(t),
           UNCHANGED <<request, written, forms, file, crossed>>
    PROVE  Inv'
<1>1. pc[t] = "convert" /\ todo[t] # <<>> /\ Head(todo[t]) = c
    BY DEF Turn
<1>2. c \in DOMAIN Conversion
    BY <1>1, NextConversion
<1>3. written' \in [Threads -> Nat] /\ \A u \in Threads \ {t} : written'[u] = written[u]
    BY DEF Inv, TypeOK
<1>4. Typed(t)' /\ Serving(t)' /\ \A u \in Threads \ {t} : UNCHANGED Local(u)
    <2>1. CASE /\ output[t].format = Conversion[c].from
               /\ Convert(t, [output[t] EXCEPT !.format = Conversion[c].to])
        <3> DEFINE text == [output[t] EXCEPT !.format = Conversion[c].to]
        <3>1. output[t] \in Texts
            BY <1>1, Turning
        <3>2. output[t].format \in Formats \ {"uri"} /\ Conversion[c].to \in Formats
            BY <2>1, <1>2, ConversionShape
        <3>3. /\ text = [format |-> Conversion[c].to, doc |-> output[t].doc]
              /\ text \in Texts
            BY <3>1, <3>2, Reformatted
        <3>4. output[t].doc = request[t].body.doc /\ request[t].body.doc \in Documents
            BY <1>1, <3>2, Output
        <3>5. Left(t, c, text)
            BY <3>3, <3>4 DEF Left
        <3> QED
            BY <1>1, <1>3, <2>1, <3>3, <3>5, ConvertKeeps
    <2>2. CASE c \in Remote /\ \E error \in Errors : Convert(t, error)
        <3>1. PICK error \in Errors : Convert(t, error)
            BY <2>2
        <3>2. error \in Texts /\ Left(t, c, error)
            BY <2>2 DEF Left, Texts
        <3> QED
            BY <1>1, <1>3, <3>1, <3>2, ConvertKeeps
    <2>3. CASE c = "xformToXformsHack" /\ Convert(t, Markup)
        <3>1. Markup \in Texts /\ Left(t, c, Markup)
            BY <2>3 DEF Left, Texts, Errors
        <3> QED
            BY <1>1, <1>3, <2>3, <3>1, ConvertKeeps
    <2>4. CASE Abort(t)
        BY <1>1, <2>4, AbortKeeps
    <2> QED
        BY <2>1, <2>2, <2>3, <2>4
<1> QED
    BY <1>4, OneThreadIsEnough DEF Inv, TypeOK

LEMMA ConvertHereKeeps ==
    ASSUME Inv, NEW t \in Threads, NEW c, ConvertHere(t, c)
    PROVE  Inv'
BY ConversionKeeps DEF ConvertHere

LEMMA CallEnoKeeps ==
    ASSUME Inv, NEW t \in Threads, NEW c \in Remote, CallEno(t, c)
    PROVE  Inv'
BY ConversionKeeps DEF CallEno

LEMMA XFormsToXFormsHackKeeps ==
    ASSUME Inv, NEW t \in Threads, XFormsToXFormsHack(t)
    PROVE  Inv'
<1>1. Turn(t, "xformToXformsHack") /\ output[t] \in Texts
    BY Turning DEF XFormsToXFormsHack, Turn
<1>2. output[t].format # "xform" /\ IsXML(output[t]) => output[t] = Markup
    BY <1>1, Before, FormatOfText DEF Errors, Text, Markup, IsXML, XMLFormats
<1>3. /\ Conversion["xformToXformsHack"].from = "xform"
      /\ Conversion["xformToXformsHack"].to = "form"
    BY DEF Conversion
<1>4. \/ /\ output[t].format = Conversion["xformToXformsHack"].from
         /\ Convert(t, [output[t] EXCEPT !.format = Conversion["xformToXformsHack"].to])
      \/ Convert(t, Markup)
      \/ Abort(t)
    BY <1>2, <1>3 DEF XFormsToXFormsHack
<1> QED
    BY <1>1, <1>4, ConversionKeeps DEF XFormsToXFormsHack

LEMMA XFormToURIKeeps ==
    ASSUME Inv, NEW t \in Threads, XFormToURI(t)
    PROVE  Inv'
<1> DEFINE key == LowerCase[request[t].name]
           uri == [output[t] EXCEPT !.format = "uri"]
<1>1. pc[t] = "convert" /\ todo[t] # <<>> /\ Head(todo[t]) = "xformToUri"
    BY DEF XFormToURI, Turn
<1>2. request[t] \in Requests /\ output[t] \in Texts
    BY <1>1, Turning
<1>3. key \in Keys
    BY <1>2, RequestShape DEF Keys
<1>4. \/ IsXML(output[t]) /\ Convert(t, uri)
      \/ \E error \in Errors : Convert(t, error)
      \/ Abort(t)
    BY DEF XFormToURI
<1>5. forms' \in [Keys -> Texts \cup {Null}]
    <2>1. \/ forms' = [forms EXCEPT ![key] = output[t]]
          \/ UNCHANGED forms
        BY DEF XFormToURI
    <2> QED
        BY <1>2, <1>3, <2>1 DEF Inv, TypeOK
<1>6. UNCHANGED <<request, written, file, crossed>>
    BY DEF XFormToURI
<1>7. written' \in [Threads -> Nat] /\ \A u \in Threads \ {t} : written'[u] = written[u]
    BY <1>6 DEF Inv, TypeOK
<1>8. Typed(t)' /\ Serving(t)' /\ \A u \in Threads \ {t} : UNCHANGED Local(u)
    <2>1. CASE IsXML(output[t]) /\ Convert(t, uri)
        <3>1. uri \in Texts /\ Left(t, "xformToUri", uri)
            <4>1. CASE output[t].format \in XMLFormats
                <5>1. output[t].format \in Formats \ {"uri"} /\ "uri" \in Formats
                    BY <4>1 DEF Formats, XMLFormats
                <5>2. uri = [format |-> "uri", doc |-> output[t].doc] /\ uri \in Texts
                    BY <1>2, <5>1, Reformatted
                <5>3. output[t].doc = request[t].body.doc /\ request[t].body.doc \in Documents
                    BY <1>1, <5>1, Output
                <5>4. Conversion["xformToUri"].to = "uri"
                    BY DEF Conversion
                <5> QED
                    BY <5>2, <5>3, <5>4 DEF Left
            <4>2. CASE output[t] = Markup
                <5>1. uri = [format |-> "uri", doc |-> Null]
                    BY <4>2 DEF Markup
                <5>2. Turn(t, "xformToUri")
                    BY DEF XFormToURI
                <5>3. request[t].op \in {"visualize", "visualizeFromDDI"} \/ request[t].body.doc = Null
                    BY <4>2, <5>2, Before DEF Markup
                <5>4. Left(t, "xformToUri", uri)
                    BY <5>1, <5>3 DEF Left
                <5> QED
                    BY <5>1, <5>4 DEF Texts
            <4> QED
                BY <1>2, <2>1, <4>1, <4>2, FormatOfText
        <3> QED
            BY <1>1, <1>6, <1>7, <2>1, <3>1, ConvertKeeps
    <2>2. CASE \E error \in Errors : Convert(t, error)
        <3>1. PICK error \in Errors : Convert(t, error)
            BY <2>2
        <3>2. error \in Texts /\ Left(t, "xformToUri", error)
            BY DEF Left, Texts, Remote
        <3> QED
            BY <1>1, <1>6, <1>7, <3>1, <3>2, ConvertKeeps
    <2>3. CASE Abort(t)
        BY <1>1, <1>6, <2>3, AbortKeeps
    <2> QED
        BY <1>4, <2>1, <2>2, <2>3
<1> QED
    BY <1>5, <1>6, <1>8, OneThreadIsEnough DEF Inv, TypeOK

LEMMA OpenPDFKeeps ==
    ASSUME Inv, NEW t \in Threads, OpenPDF(t)
    PROVE  Inv'
<1>1. pc[t] = "convert" /\ todo[t] # <<>> /\ Head(todo[t]) = "foToPdf"
    BY DEF OpenPDF, Turn
<1>2. CASE /\ file' = <<>> /\ written' = [written EXCEPT ![t] = 0] /\ crossed' \subseteq Threads
           /\ pc' = [pc EXCEPT ![t] = "write"]
           /\ UNCHANGED <<request, todo, output, answer, forms>>
    <2>1. IsEnd(t) /\ Carried(t) /\ answer[t] = NoAnswer
        BY <1>1, Turning
    <2>2. pc'[t] = "write"
        BY <1>2 DEF Inv, TypeOK
    <2>3. Typed(t)'
        BY <1>1, <1>2, <2>2 DEF Inv, TypeOK, Typed, Steps
    <2>4. IsEnd(t)' /\ Carried(t)'
        BY <1>2, <2>1 DEF IsEnd, Carried, Ran, Left
    <2>5. Serving(t)'
        BY <1>1, <1>2, <2>1, <2>2, <2>4 DEF Serving
    <2>6. \A u \in Threads \ {t} : UNCHANGED Local(u)
        BY <1>2 DEF Local, Inv, TypeOK
    <2>7. file' \in Seq(Documents \cup {Null})
        BY <1>2
    <2> QED
        BY <1>2, <2>3, <2>5, <2>6, <2>7, OneThreadIsEnough DEF Inv, TypeOK
<1>3. CASE Abort(t) /\ UNCHANGED <<request, written, forms, file, crossed>>
    <2>1. Typed(t)' /\ Serving(t)' /\ \A u \in Threads \ {t} : UNCHANGED Local(u)
        BY <1>1, <1>3, AbortKeeps
    <2> QED
        BY <1>3, <2>1, OneThreadIsEnough DEF Inv, TypeOK
<1>4. UsingFile \subseteq Threads /\ crossed \subseteq Threads
    BY DEF UsingFile, Inv, TypeOK
<1> QED
    BY <1>2, <1>3, <1>4 DEF OpenPDF

\* The file with one block more or another.
LEMMA PutIsFile ==
    ASSUME file \in Seq(Documents \cup {Null}), NEW p \in Nat \ {0}, NEW d \in Documents
    PROVE  Put(p, d) \in Seq(Documents \cup {Null})
<1>1. (IF p > Len(file) THEN p ELSE Len(file)) \in Nat
    OBVIOUS
<1>2. \A i \in 1 .. Len(file) : file[i] \in Documents \cup {Null}
    OBVIOUS
<1> QED
    BY <1>1, <1>2 DEF Put

LEMMA WritePDFKeeps ==
    ASSUME Inv, NEW t \in Threads, WritePDF(t)
    PROVE  Inv'
<1> DEFINE d == output[t].doc
           pdf == [output[t] EXCEPT !.format = "pdf"]
<1>1. pc[t] = "write" /\ UNCHANGED <<request, forms, crossed>>
    BY DEF WritePDF
<1>2. /\ todo[t] # <<>> /\ Head(todo[t]) = "foToPdf"
      /\ IsEnd(t) /\ Carried(t) /\ answer[t] = NoAnswer /\ output[t] \in Texts
    BY <1>1, Turning
<1>3. CASE /\ output[t].format = "fo"
           /\ file' = Put(written[t] + 1, d)
           /\ written' = [written EXCEPT ![t] = @ + 1]
           /\ UNCHANGED <<pc, todo, output, answer>>
    <2>1. d \in Documents
        BY <1>2, <1>3, FormatOfText DEF Formats, XMLFormats
    <2>2. file' \in Seq(Documents \cup {Null})
        BY <1>3, <2>1, PutIsFile DEF Inv, TypeOK
    <2>3. Typed(t)'
        <3>1. written \in [Threads -> Nat]
            BY DEF Inv, TypeOK
        <3>2. written' \in [Threads -> Nat]
            BY <1>3, <3>1
        <3>3. Typed(t)
            BY DEF Inv, TypeOK, Typed, Steps
        <3> QED
            BY <1>1, <1>3, <3>2, <3>3 DEF Typed
    <2>4. IsEnd(t)' /\ Carried(t)'
        BY <1>1, <1>2, <1>3 DEF IsEnd, Carried, Ran, Left
    <2>5. Serving(t)'
        BY <1>1, <1>2, <1>3, <2>4 DEF Serving
    <2>6. \A u \in Threads \ {t} : UNCHANGED Local(u)
        BY <1>1, <1>3 DEF Local, Inv, TypeOK
    <2> QED
        BY <1>1, <2>2, <2>3, <2>5, <2>6, OneThreadIsEnough DEF Inv, TypeOK
<1>4. CASE output[t].format = "fo" /\ Convert(t, pdf) /\ UNCHANGED <<file, written>>
    <2>1. output[t].format \in Formats \ {"uri"} /\ "pdf" \in Formats
        BY <1>4 DEF Formats, XMLFormats
    <2>2. pdf = [format |-> "pdf", doc |-> output[t].doc] /\ pdf \in Texts
        BY <1>2, <2>1, Reformatted
    <2>3. output[t].doc = request[t].body.doc /\ request[t].body.doc \in Documents
        BY <1>1, <2>1, Output
    <2>4. Conversion["foToPdf"].to = "pdf"
        BY DEF Conversion
    <2>5. Left(t, "foToPdf", pdf)
        BY <2>2, <2>3, <2>4 DEF Left
    <2>6. written' \in [Threads -> Nat] /\ \A u \in Threads \ {t} : written'[u] = written[u]
        BY <1>4 DEF Inv, TypeOK
    <2>7. Typed(t)' /\ Serving(t)' /\ \A u \in Threads \ {t} : UNCHANGED Local(u)
        BY <1>1, <1>2, <1>4, <2>2, <2>5, <2>6, ConvertKeeps
    <2> QED
        BY <1>1, <1>4, <2>7, OneThreadIsEnough DEF Inv, TypeOK
<1>5. CASE Abort(t) /\ UNCHANGED <<file, written>>
    <2>1. Typed(t)' /\ Serving(t)' /\ \A u \in Threads \ {t} : UNCHANGED Local(u)
        BY <1>1, <1>5, AbortKeeps
    <2> QED
        BY <1>1, <1>5, <2>1, OneThreadIsEnough DEF Inv, TypeOK
<1> QED
    BY <1>3, <1>4, <1>5 DEF WritePDF

\* An answer with other blocks.
LEMMA Resent ==
    ASSUME NEW a \in Answers, NEW blocks \in Seq(Documents \cup {Null}),
           NEW new, new = [a EXCEPT !.blocks = blocks]
    PROVE  new \in Answers /\ new.status = a.status /\ new.text = a.text
BY DEF Answers

LEMMA FinishKeeps ==
    ASSUME Inv, NEW t \in Threads, Finish(t)
    PROVE  Inv'
<1>1. pc[t] = "convert" /\ todo[t] = <<>> /\ UNCHANGED <<request, todo, output, written, forms, file, crossed>>
    BY DEF Finish
<1>2. /\ IsEnd(t) /\ Carried(t) /\ output[t] \in Texts
      /\ request[t] \in Requests /\ request[t] # Null
      /\ Chain[request[t].op] \in Seq(DOMAIN Conversion) /\ Len(Chain[request[t].op]) >= 1
    BY <1>1, Turning
<1>3. Left(t, Last(Chain[request[t].op]), output[t])
    <2>1. Ran(t) = Len(Chain[request[t].op])
        BY <1>1, <1>2 DEF Ran
    <2> QED
        BY <1>2, <2>1 DEF Carried, Last
<1>4. answer' = [answer EXCEPT ![t] = [answer[t] EXCEPT !.status = 200, !.text = output[t]]]
    BY DEF Finish
<1>5. answer[t] \in Answers
    BY DEF Inv, TypeOK
<1>6. /\ answer'[t].status = 200 /\ answer'[t].text = output[t]
      /\ answer' \in [Threads -> Answers]
    <2> DEFINE new == [answer[t] EXCEPT !.status = 200, !.text = output[t]]
    <2>4. output[t] \in Texts
        BY <1>2
    <2>1. new \in Answers /\ new.status = 200 /\ new.text = output[t]
        BY <1>5, <2>4 DEF Answers
    <2>2. answer \in [Threads -> Answers]
        BY DEF Inv, TypeOK
    <2>3. answer' = [answer EXCEPT ![t] = new]
        BY <1>4
    <2> HIDE DEF new
    <2> QED
        BY <2>1, <2>2, <2>3
<1>7. /\ pc' \in [Threads -> Steps] /\ pc'[t] \in {"read", "done"}
      /\ pc'[t] = "read" => output[t].format = "pdf"
    BY DEF Finish, Inv, TypeOK, Steps
<1>8. Typed(t)'
    BY <1>1, <1>2, <1>6, <1>7, RequestsAssumption DEF Typed, Inv, TypeOK
<1>9. IsEnd(t)'
    BY <1>1, <1>2 DEF IsEnd, Ran
<1>10. Left(t, Last(Chain[request[t].op]), answer[t].text)'
    BY <1>1, <1>3, <1>6 DEF Left, Last
<1>11. Serving(t)'
    BY <1>6, <1>7, <1>9, <1>10 DEF Serving
<1>12. \A u \in Threads \ {t} : UNCHANGED Local(u)
    BY <1>1, <1>4 DEF Finish, Local, Inv, TypeOK
<1> QED
    BY <1>1, <1>8, <1>11, <1>12, OneThreadIsEnough DEF Inv, TypeOK

LEMMA SendFileKeeps ==
    ASSUME Inv, NEW t \in Threads, SendFile(t)
    PROVE  Inv'
<1> DEFINE sent == answer[t].blocks
<1>1. pc[t] = "read" /\ UNCHANGED <<request, todo, output, written, forms, file, crossed>>
    BY DEF SendFile
<1>2. Serving(t) /\ Typed(t)
    BY DEF Inv, TypeOK, Typed, Steps
<1>3. /\ answer' \in [Threads -> Answers]
      /\ answer'[t].status = answer[t].status /\ answer'[t].text = answer[t].text
      /\ \A u \in Threads \ {t} : answer'[u] = answer[u]
    <2>1. answer \in [Threads -> Answers] /\ answer[t] \in Answers
        BY DEF Inv, TypeOK
    <2>2. CASE UNCHANGED answer
        BY <2>1, <2>2
    <2>3. CASE /\ Len(sent) < Len(file)
               /\ answer' = [answer EXCEPT ![t].blocks = Append(sent, file[Len(sent) + 1])]
        <3>1. file \in Seq(Documents \cup {Null}) /\ sent \in Seq(Documents \cup {Null})
            BY <2>1 DEF Inv, TypeOK, Answers
        <3>2. file[Len(sent) + 1] \in Documents \cup {Null}
            BY <2>3, <3>1
        <3>3. Append(sent, file[Len(sent) + 1]) \in Seq(Documents \cup {Null})
            BY <3>1, <3>2
        <3> DEFINE new == [answer[t] EXCEPT !.blocks = Append(sent, file[Len(sent) + 1])]
        <3>4. new \in Answers /\ new.status = answer[t].status /\ new.text = answer[t].text
            BY <2>1, <3>3, Resent
        <3>5. answer' = [answer EXCEPT ![t] = new]
            BY <2>3
        <3> HIDE DEF new
        <3> QED
            BY <2>1, <3>4, <3>5
    <2> QED
        BY <2>2, <2>3 DEF SendFile
<1>4. /\ pc' \in [Threads -> Steps] /\ pc'[t] \in {"read", "done"}
      /\ \A u \in Threads \ {t} : pc'[u] = pc[u]
    BY DEF SendFile, Inv, TypeOK, Steps
<1>5. Typed(t)'
    BY <1>1, <1>2, <1>3, <1>4 DEF Typed
<1>6. IsEnd(t)'
    BY <1>1, <1>2 DEF Serving, IsEnd, Ran
<1>7. Left(t, Last(Chain[request[t].op]), answer[t].text)'
    BY <1>1, <1>2, <1>3 DEF Serving, Left, Last
<1>8. Serving(t)'
    BY <1>1, <1>2, <1>3, <1>4, <1>6, <1>7 DEF Serving
<1>9. \A u \in Threads \ {t} : UNCHANGED Local(u)
    BY <1>1, <1>3, <1>4 DEF Local
<1> QED
    BY <1>1, <1>5, <1>8, <1>9, OneThreadIsEnough DEF Inv, TypeOK

LEMMA ReturnKeeps ==
    ASSUME Inv, NEW t \in Threads, Return(t)
    PROVE  Inv'
<1>1. NoAnswer \in Answers /\ NoAnswer.status = Null
    BY DEF NoAnswer, Answers
<1>2. pc'[t] = "idle" /\ request'[t] = Null /\ answer'[t] = NoAnswer
    BY DEF Return, Inv, TypeOK
<1>3. Typed(t)'
    BY <1>1, <1>2 DEF Return, Inv, TypeOK, Typed, Steps
<1>4. Serving(t)'
    BY <1>2 DEF Serving
<1>5. \A u \in Threads \ {t} : UNCHANGED Local(u)
    BY DEF Return, Local, Inv, TypeOK
<1> QED
    BY <1>3, <1>4, <1>5, OneThreadIsEnough DEF Return, Inv, TypeOK

LEMMA StutterKeeps ==
    ASSUME Inv, UNCHANGED vars
    PROVE  Inv'
<1>1. ASSUME NEW t \in Threads PROVE Serving(t)'
    <2>1. Serving(t) /\ UNCHANGED <<pc, request, todo, output, answer>>
        BY DEF Inv, vars
    <2>2. (IsEnd(t) => IsEnd(t)') /\ (Carried(t) => Carried(t)')
        BY <2>1 DEF IsEnd, Carried, Ran, Left
    <2> QED
        BY <2>1, <2>2 DEF Serving, Left, Last
<1>2. TypeOK'
    <2>1. ASSUME NEW t \in Threads, request'[t] # Null
          PROVE  IsSuffix(todo'[t], Chain[request'[t].op])
        <3>1. todo'[t] = todo[t] /\ request'[t] = request[t] /\ IsSuffix(todo[t], Chain[request[t].op])
            BY <2>1 DEF vars, Inv, TypeOK
        <3> QED
            BY <3>1
    <2>2. \A t \in Threads : request'[t] # Null => IsSuffix(todo[t], Chain[request[t].op])'
        BY <2>1
    <2> QED
        BY <2>2 DEF Inv, TypeOK, vars
<1> QED
    BY <1>1, <1>2 DEF Inv

LEMMA NextKeeps == Inv /\ [Next]_vars => Inv'
<1> SUFFICES ASSUME Inv, [Next]_vars PROVE Inv'
    OBVIOUS
<1>1. CASE Next
    <2>1. PICK t \in Threads :
            \/ Receive(t) \/ JsonToXML(t) \/ XmlToJson(t) \/ XFormsToXFormsHack(t)
            \/ PoguesXMLToDDI(t) \/ DDIToXForm(t) \/ DDIToODT(t) \/ DDIToFO(t)
            \/ XFormToURI(t) \/ OpenPDF(t) \/ WritePDF(t) \/ Finish(t) \/ SendFile(t) \/ Return(t)
        BY <1>1 DEF Next
    <2>2. CASE JsonToXML(t) \/ XmlToJson(t)
        BY <2>2, ConvertHereKeeps DEF JsonToXML, XmlToJson
    <2>3. CASE PoguesXMLToDDI(t) \/ DDIToXForm(t) \/ DDIToODT(t) \/ DDIToFO(t)
        BY <2>3, CallEnoKeeps DEF PoguesXMLToDDI, DDIToXForm, DDIToODT, DDIToFO, Remote
    <2> QED
        BY <2>1, <2>2, <2>3, ReceiveKeeps, XFormsToXFormsHackKeeps, XFormToURIKeeps, OpenPDFKeeps, WritePDFKeeps,
           FinishKeeps, SendFileKeeps, ReturnKeeps
<1> QED
    BY <1>1, StutterKeeps

LEMMA Invariance == Spec => []Inv
BY InitInv, NextKeeps, PTL DEF Spec
-----------------------------------------------------------------------------
(***************************************************************************)
(* What is answered and what is published.                                 *)
(***************************************************************************)
\* The variables take the values meant for them; what a thread has left to do is
\* the end of the chain of its operation.
THEOREM TypeCorrect == Spec => []TypeOK
<1>1. Inv => TypeOK
    BY DEF Inv
<1> QED
    BY Invariance, <1>1, PTL

\* Whatever web services answer, a text answered with success by /transform is the
\* body sent, brought through the whole chain; an error text of the web service
\* that ends the chain; or, where a form was to be published, the URI of an error
\* page published in its place.
THEOREM AnswersAreConverted == Spec => []AnswerIsConvertedBody
<1>1. Inv => AnswerIsConvertedBody
    <2> SUFFICES ASSUME Inv, NEW t \in Threads, pc[t] = "done", answer[t].status = 200
                 PROVE  LET end == Last(Chain[request[t].op]) IN
                        \/ answer[t].text = [format |-> Conversion[end].to, doc |-> request[t].body.doc]
                        \/ answer[t].text \in Errors /\ end \in {"poguesXMLToDDI", "ddiToOdt", "xformToUri"}
                        \/ /\ answer[t].text = [format |-> "uri", doc |-> Null]
                           /\ request[t].op \in {"visualize", "visualizeFromDDI"}
        BY DEF AnswerIsConvertedBody
    <2> DEFINE end == Last(Chain[request[t].op])
    <2>1. request[t] \in Requests
        BY DEF Inv, TypeOK
    <2>2. Left(t, end, answer[t].text)
        BY DEF Inv, Serving
    <2>3. /\ end \in Remote => end \in {"poguesXMLToDDI", "ddiToOdt", "xformToUri"}
          /\ end # "xformToXformsHack"
        BY <2>1, RequestShape, ChainShape DEF Last
    <2>4. Conversion["xformToUri"].to = "uri"
        BY DEF Conversion
    <2> QED
        BY <2>2, <2>3, <2>4 DEF Left
<1> QED
    BY Invariance, <1>1, PTL

\* Only XFormToURI publishes, and only XML.
LEMMA OnlyXFormToURIPublishes ==
    ASSUME Next, forms' # forms
    PROVE  \E t \in Threads :
              /\ Turn(t, "xformToUri")
              /\ IsXML(output[t])
              /\ forms' = [forms EXCEPT ![LowerCase[request[t].name]] = output[t]]
<1>1. PICK t \in Threads : XFormToURI(t)
    BY DEF Next, Receive, JsonToXML, XmlToJson, XFormsToXFormsHack, PoguesXMLToDDI, DDIToXForm,
           DDIToODT, DDIToFO, ConvertHere, CallEno, OpenPDF, WritePDF, Finish, SendFile, Return
<1> QED
    BY <1>1 DEF XFormToURI

\* What is published under a key comes from a request for that key: the XML it asked
\* to publish or, of a questionnaire, its adapted XForm or a well-formed error page
\* of a conversion; nothing converted part of the way, and no error in plain text.
THEOREM PublishedHolds == Spec => PublishedIsConverted
<1> DEFINE Fits(t, k) ==
        /\ Turn(t, "xformToUri")
        /\ LowerCase[request[t].name] = k
        /\ IF request[t].op = "xform2uri"
           THEN forms'[k] = request[t].body /\ IsXML(forms'[k])
           ELSE forms'[k] \in {[format |-> "form", doc |-> request[t].body.doc], Markup}
<1> DEFINE Published == \A k \in Keys : forms'[k] # forms[k] => \E t \in Threads : Fits(t, k)
<1>1. Inv /\ [Next]_vars => [Published]_vars
    <2> SUFFICES ASSUME Inv, Next, NEW k \in Keys, forms'[k] # forms[k]
                 PROVE  \E t \in Threads : Fits(t, k)
        OBVIOUS
    <2>1. PICK t \in Threads :
              /\ Turn(t, "xformToUri")
              /\ IsXML(output[t])
              /\ forms' = [forms EXCEPT ![LowerCase[request[t].name]] = output[t]]
        BY OnlyXFormToURIPublishes
    <2>2. LowerCase[request[t].name] = k /\ forms'[k] = output[t]
        BY <2>1 DEF Inv, TypeOK
    <2> QED
        BY <2>1, <2>2, Before
<1> QED
    BY Invariance, <1>1, PTL DEF Spec, PublishedIsConverted
-----------------------------------------------------------------------------
(***************************************************************************)
(* The file of a thread that has it to itself.                             *)
(***************************************************************************)
\* The first n blocks of the PDF of d.
Begun(n, d) == [i \in 1 .. n |-> d]

OwnFile(t) ==
    LET d == request[t].body.doc IN
    t \notin crossed =>
        /\ t \in UsingFile => UsingFile = {t}
        /\ pc[t] = "write" /\ output[t].format = "fo" =>
              written[t] <= Blocks[d] /\ file = Begun(written[t], d)
        /\ pc[t] = "convert" /\ output[t].format = "pdf" => file = Begun(Blocks[d], d)
        /\ pc[t] = "read" =>
              /\ file = Begun(Blocks[d], d)
              /\ \E n \in 0 .. Blocks[d] : answer[t].blocks = Begun(n, d)
        /\ pc[t] = "done" /\ SentPdf(t) => answer[t].blocks = Begun(Blocks[d], d)

FileInv == Inv /\ \A t \in Threads : OwnFile(t)

LEMMA BegunIsSequence ==
    ASSUME NEW n \in Nat, NEW d
    PROVE  Begun(n, d) \in Seq({d}) /\ Len(Begun(n, d)) = n /\ \A i \in 1 .. n : Begun(n, d)[i] = d
BY DEF Begun

LEMMA NothingBegun == \A d : Begun(0, d) = <<>>
<1> SUFFICES ASSUME NEW d PROVE Begun(0, d) = <<>>
    OBVIOUS
<1>1. Begun(0, d) \in Seq({d}) /\ Len(Begun(0, d)) = 0
    BY BegunIsSequence
<1> HIDE DEF Begun
<1> QED
    BY <1>1

\* One block more.
LEMMA PutExtends ==
    ASSUME NEW n \in Nat, NEW d, file = Begun(n, d)
    PROVE  Put(n + 1, d) = Begun(n + 1, d)
<1>1. Len(file) = n /\ \A i \in 1 .. n : file[i] = d
    BY BegunIsSequence
<1> QED
    BY <1>1 DEF Put, Begun

LEMMA AppendExtends ==
    ASSUME NEW n \in Nat, NEW d
    PROVE  Append(Begun(n, d), d) = Begun(n + 1, d)
<1>1. /\ Begun(n, d) \in Seq({d}) /\ Len(Begun(n, d)) = n
      /\ Begun(n + 1, d) \in Seq({d}) /\ Len(Begun(n + 1, d)) = n + 1
    BY BegunIsSequence
<1>2. \A i \in 1 .. n + 1 : Append(Begun(n, d), d)[i] = d /\ Begun(n + 1, d)[i] = d
    BY <1>1, BegunIsSequence DEF Begun
<1> QED
    BY <1>1, <1>2

\* A text in the format of a PDF is there only when the chain is at its end.
LEMMA PdfIsLast ==
    ASSUME Inv, NEW t \in Threads, pc[t] \in {"convert", "write"}, output[t].format = "pdf"
    PROVE  todo[t] = <<>>
<1> DEFINE op == request[t].op
<1>1. /\ request[t] \in Requests /\ op \in DOMAIN Chain /\ Chain[op] \in Seq(DOMAIN Conversion)
      /\ IsEnd(t) /\ Carried(t) /\ todo[t] \in Seq(DOMAIN Conversion)
    BY Turning, RequestShape
<1>2. Ran(t) # 0
    BY <1>1, RequestShape DEF Carried
<1>3. Ran(t) \in 1 .. Len(Chain[op])
    BY <1>1, <1>2 DEF IsEnd
<1>4. Chain[op][Ran(t)] \in DOMAIN Conversion
    BY <1>1, <1>3
<1>5. output[t].format = Conversion[Chain[op][Ran(t)]].to
    BY <1>1, <1>2 DEF Carried, Left, Errors, Text, Markup
<1>6. Ran(t) = Len(Chain[op])
    BY <1>1, <1>3, <1>4, <1>5, ConversionShape, ChainShape
<1> DEFINE n == Len(Chain[op])
<1> DEFINE m == Len(todo[t])
<1>7. Ran(t) = n - m
    BY DEF Ran
<1>8. n \in Nat /\ m \in Nat
    BY <1>1
<1>9. Ran(t) = n
    BY <1>6
<1> HIDE DEF op, n, m
<1>10. m = 0
    BY <1>7, <1>8, <1>9
<1> QED
    BY <1>1, <1>10 DEF m

LEMMA InitFileInv == Init => FileInv
BY InitInv DEF FileInv, Init, OwnFile, UsingFile

\* A step of t that is neither before nor after it among the users of the file.
LEMMA QuietKeeps ==
    ASSUME FileInv, NEW t \in Threads, \A u \in Threads \ {t} : UNCHANGED Local(u),
           UNCHANGED file, crossed' \ {t} = crossed \ {t},
           t \notin UsingFile, t \notin UsingFile',
           pc'[t] = "done" => ~ SentPdf(t)'
    PROVE  \A u \in Threads : OwnFile(u)'
<1>1. \A u \in Threads \ {t} : UNCHANGED <<pc[u], request[u], output[u], written[u], answer[u]>>
    BY DEF Local
<1>2. UsingFile' = UsingFile
    BY <1>1 DEF UsingFile
<1>3. ASSUME NEW u \in Threads \ {t} PROVE OwnFile(u)'
    BY <1>1, <1>2 DEF FileInv, OwnFile, SentPdf, Begun
<1>4. OwnFile(t)'
    BY DEF OwnFile, UsingFile
<1> QED
    BY <1>3, <1>4

\* A step of a user of the file: whoever else has a claim has it no longer.
LEMMA UserKeeps ==
    ASSUME FileInv, NEW t \in Threads, \A u \in Threads \ {t} : UNCHANGED Local(u),
           t \in UsingFile, UNCHANGED crossed, OwnFile(t)'
    PROVE  \A u \in Threads : OwnFile(u)'
<1>1. \A u \in Threads \ {t} : UNCHANGED <<pc[u], request[u], output[u], written[u], answer[u]>>
    BY DEF Local
<1>2. ASSUME NEW u \in Threads \ {t}, u \notin crossed PROVE OwnFile(u)'
    <2>1. u \notin UsingFile
        BY <1>2 DEF FileInv, OwnFile
    <2>2. u \notin UsingFile'
        BY <1>1, <1>2, <2>1 DEF UsingFile
    <2> QED
        BY <1>1, <1>2, <2>1, <2>2 DEF FileInv, OwnFile, UsingFile, SentPdf, Begun
<1>3. ASSUME NEW u \in Threads \ {t}, u \in crossed PROVE OwnFile(u)'
    BY <1>3 DEF OwnFile
<1> QED
    BY <1>2, <1>3

\* What t does, as one action, and the conversions of it.
Converts(t) ==
    \/ JsonToXML(t) \/ XmlToJson(t) \/ XFormsToXFormsHack(t) \/ PoguesXMLToDDI(t)
    \/ DDIToXForm(t) \/ DDIToODT(t) \/ DDIToFO(t) \/ XFormToURI(t)

LEMMA ConvertsOneText ==
    ASSUME Inv, NEW t \in Threads, Converts(t)
    PROVE  /\ pc[t] = "convert" /\ todo[t] # <<>>
           /\ UNCHANGED <<request, written, file, crossed>>
           /\ \/ \E text : Convert(t, text) /\ text.format # "pdf"
              \/ Abort(t)
<1>1. Conversion["jsonToXML"].to # "pdf" /\ Conversion["xmlToJson"].to # "pdf"
      /\ Conversion["poguesXMLToDDI"].to # "pdf" /\ Conversion["ddiToXForm"].to # "pdf"
      /\ Conversion["ddiToOdt"].to # "pdf" /\ Conversion["ddiToFo"].to # "pdf"
    BY DEF Conversion
<1>2. \A error \in Errors : error.format # "pdf"
    BY DEF Errors, Text, Markup
<1>3. ASSUME NEW c, Turn(t, c) PROVE pc[t] = "convert" /\ todo[t] # <<>> /\ output[t] \in Texts
    BY <1>3, Turning DEF Turn
<1>4. ASSUME NEW x \in Texts, NEW f \in Formats PROVE [x EXCEPT !.format = f].format = f
    BY DEF Texts, Errors, Text, Markup
<1>5. ASSUME NEW c, c \in DOMAIN Conversion, Conversion[c].to # "pdf",
             ConvertHere(t, c) \/ CallEno(t, c)
      PROVE  /\ pc[t] = "convert" /\ todo[t] # <<>>
             /\ UNCHANGED <<request, written, file, crossed>>
             /\ \/ \E text : Convert(t, text) /\ text.format # "pdf"
                \/ Abort(t)
    <2>1. Turn(t, c) /\ UNCHANGED <<request, written, file, crossed>>
        BY <1>5 DEF ConvertHere, CallEno
    <2>2. [output[t] EXCEPT !.format = Conversion[c].to].format # "pdf"
        BY <1>3, <1>4, <1>5, <2>1, ConversionShape
    <2> QED
        BY <1>2, <1>3, <1>5, <2>1, <2>2 DEF ConvertHere, CallEno
<1>6. CASE XFormToURI(t)
    <2>1. Turn(t, "xformToUri") /\ UNCHANGED <<request, written, file, crossed>>
        BY <1>6 DEF XFormToURI
    <2>2. [output[t] EXCEPT !.format = "uri"].format # "pdf"
        BY <1>3, <1>4, <2>1 DEF Formats
    <2> QED
        BY <1>2, <1>3, <1>6, <2>1, <2>2 DEF XFormToURI
<1>7. CASE XFormsToXFormsHack(t)
    <2>1. Turn(t, "xformToXformsHack") /\ UNCHANGED <<request, written, file, crossed>>
        BY <1>7 DEF XFormsToXFormsHack
    <2>2. /\ [output[t] EXCEPT !.format = "form"].format # "pdf"
          /\ IsXML(output[t]) => output[t].format # "pdf"
        BY <1>3, <1>4, <2>1 DEF Formats, XMLFormats, IsXML
    <2> QED
        BY <1>3, <1>7, <2>1, <2>2 DEF XFormsToXFormsHack
<1>8. {"jsonToXML", "xmlToJson", "poguesXMLToDDI", "ddiToXForm", "ddiToOdt", "ddiToFo"}
          \subseteq DOMAIN Conversion
    BY DEF Conversion
<1>9. CASE JsonToXML(t) \/ XmlToJson(t)
    BY <1>1, <1>5, <1>8, <1>9 DEF JsonToXML, XmlToJson
<1>10. CASE PoguesXMLToDDI(t) \/ DDIToXForm(t) \/ DDIToODT(t) \/ DDIToFO(t)
    BY <1>1, <1>5, <1>8, <1>10 DEF PoguesXMLToDDI, DDIToXForm, DDIToODT, DDIToFO
<1> QED
    BY <1>6, <1>7, <1>9, <1>10 DEF Converts

\* A request that stops before it uses the file leaves it to the others.
LEMMA AbortKeepsFile ==
    ASSUME FileInv, NEW t \in Threads, pc[t] = "convert", todo[t] # <<>>, Abort(t),
           UNCHANGED <<request, written, file, crossed>>
    PROVE  \A u \in Threads : OwnFile(u)'
<1>1. t \notin UsingFile
    BY PdfIsLast DEF FileInv, UsingFile
<1>2. \A u \in Threads \ {t} : UNCHANGED Local(u)
    BY DEF Abort, Local, FileInv, Inv, TypeOK
<1>3. pc'[t] = "done" /\ answer'[t].status \in {500, Unmapped}
    <2>1. PICK status \in {500, Unmapped} : answer' = [answer EXCEPT ![t].status = status]
        BY DEF Abort
    <2>2. answer \in [Threads -> Answers] /\ answer[t] \in Answers
        BY DEF FileInv, Inv, TypeOK
    <2>3. answer'[t].status = status
        BY <2>1, <2>2 DEF Answers
    <2>4. pc'[t] = "done"
        BY DEF Abort, FileInv, Inv, TypeOK
    <2> QED
        BY <2>3, <2>4
<1>4. ~ SentPdf(t)' /\ t \notin UsingFile'
    BY <1>3 DEF SentPdf, Unmapped, UsingFile
<1> QED
    BY <1>1, <1>2, <1>4, QuietKeeps

LEMMA ConvertsKeepsFile ==
    ASSUME FileInv, NEW t \in Threads, Converts(t)
    PROVE  \A u \in Threads : OwnFile(u)'
<1>1. /\ pc[t] = "convert" /\ todo[t] # <<>> /\ UNCHANGED <<request, written, file, crossed>>
      /\ (\E text : Convert(t, text) /\ text.format # "pdf") \/ Abort(t)
    BY ConvertsOneText DEF FileInv
<1>2. t \notin UsingFile
    BY <1>1, PdfIsLast DEF FileInv, UsingFile
<1>3. CASE \E text : Convert(t, text) /\ text.format # "pdf"
    <2>1. pc'[t] = "convert" /\ output'[t].format # "pdf"
        BY <1>3 DEF Convert, FileInv, Inv, TypeOK
    <2>2. t \notin UsingFile' /\ \A u \in Threads \ {t} : UNCHANGED Local(u)
        BY <1>1, <1>3, <2>1 DEF UsingFile, Convert, Local, FileInv, Inv, TypeOK
    <2> QED
        BY <1>1, <1>2, <2>1, <2>2, QuietKeeps
<1> QED
    BY <1>1, <1>3, AbortKeepsFile

LEMMA ReceiveKeepsFile ==
    ASSUME FileInv, NEW t \in Threads, Receive(t)
    PROVE  \A u \in Threads : OwnFile(u)'
<1>1. PICK r \in Requests :
        /\ request' = [request EXCEPT ![t] = r]
        /\ todo' = [todo EXCEPT ![t] = Chain[r.op]]
        /\ output' = [output EXCEPT ![t] = r.body]
    BY DEF Receive
<1>2. \A u \in Threads \ {t} : UNCHANGED Local(u)
    BY <1>1 DEF Receive, Local, FileInv, Inv, TypeOK
<1>3. pc[t] = "idle" /\ pc'[t] = "convert" /\ output'[t].format # "pdf"
    BY <1>1, RequestShape DEF Receive, FileInv, Inv, TypeOK
<1>4. t \notin UsingFile /\ t \notin UsingFile'
    BY <1>3 DEF UsingFile
<1> QED
    BY <1>2, <1>3, <1>4, QuietKeeps DEF Receive

LEMMA ReturnKeepsFile ==
    ASSUME FileInv, NEW t \in Threads, Return(t)
    PROVE  \A u \in Threads : OwnFile(u)'
<1>1. pc[t] = "done" /\ pc'[t] = "idle" /\ UNCHANGED file /\ crossed' = crossed \ {t}
      /\ \A u \in Threads \ {t} : UNCHANGED Local(u)
    BY DEF Return, Local, FileInv, Inv, TypeOK
<1>2. t \notin UsingFile /\ t \notin UsingFile'
    BY <1>1 DEF UsingFile
<1>3. crossed' \ {t} = crossed \ {t}
    BY <1>1
<1> QED
    BY <1>1, <1>2, <1>3, QuietKeeps

LEMMA OpenPDFKeepsFile ==
    ASSUME FileInv, NEW t \in Threads, OpenPDF(t)
    PROVE  \A u \in Threads : OwnFile(u)'
<1> SUFFICES ASSUME Turn(t, "foToPdf"), file' = <<>>, written' = [written EXCEPT ![t] = 0],
                    pc' = [pc EXCEPT ![t] = "write"],
                    crossed' = IF UsingFile = {} THEN crossed \ {t} ELSE crossed \cup UsingFile \cup {t},
                    UNCHANGED <<request, todo, output, answer>>
             PROVE  \A u \in Threads : OwnFile(u)'
    BY AbortKeepsFile DEF OpenPDF, Turn
<1>1. /\ pc[t] = "convert" /\ todo[t] # <<>> /\ Head(todo[t]) = "foToPdf"
      /\ pc'[t] = "write" /\ written'[t] = 0 /\ file' = <<>>
      /\ UNCHANGED <<request, output, answer>>
      /\ \A u \in Threads \ {t} : UNCHANGED Local(u)
    BY DEF Turn, Local, FileInv, Inv, TypeOK
<1>2. crossed' = IF UsingFile = {} THEN crossed \ {t} ELSE crossed \cup UsingFile \cup {t}
    OBVIOUS
<1>3. \A u \in Threads \ {t} : UNCHANGED <<pc[u], request[u], output[u], written[u], answer[u]>>
    BY <1>1 DEF Local
<1>4. UsingFile' = UsingFile \cup {t}
    BY <1>1, <1>3 DEF UsingFile
<1>5. ASSUME NEW u \in Threads \ {t}, u \notin crossed' PROVE OwnFile(u)'
    <2>1. u \notin UsingFile /\ u \notin crossed /\ u \notin UsingFile'
        BY <1>2, <1>4, <1>5
    <2> QED
        BY <1>3, <1>5, <2>1 DEF FileInv, OwnFile, UsingFile, SentPdf
<1>6. ASSUME t \notin crossed' PROVE OwnFile(t)'
    <2>1. UsingFile' = {t}
        BY <1>2, <1>4, <1>6
    <2>2. ASSUME output[t].format = "fo"
          PROVE  written'[t] <= Blocks[request[t].body.doc] /\ file' = Begun(0, request[t].body.doc)
        <3>1. request[t].body.doc \in Documents
            BY <1>1, <2>2, Output DEF FileInv, Formats, XMLFormats
        <3>2. Blocks[request[t].body.doc] \in Nat
            BY <3>1, RequestsAssumption
        <3>3. Begun(0, request[t].body.doc) = <<>>
            BY NothingBegun
        <3> QED
            BY <1>1, <3>2, <3>3
    <2> QED
        BY <1>1, <2>1, <2>2 DEF OwnFile, Begun
<1>7. \A u \in Threads : u \in crossed' => OwnFile(u)'
    BY DEF OwnFile
<1> QED
    BY <1>5, <1>6, <1>7

LEMMA WritePDFKeepsFile ==
    ASSUME FileInv, NEW t \in Threads, WritePDF(t)
    PROVE  \A u \in Threads : OwnFile(u)'
<1> DEFINE d == request[t].body.doc
<1>1. pc[t] = "write" /\ UNCHANGED <<request, forms, crossed>> /\ t \in UsingFile
    BY DEF WritePDF, UsingFile
<1>2. /\ pc \in [Threads -> Steps] /\ written \in [Threads -> Nat]
      /\ output \in [Threads -> Texts \cup {Null}] /\ todo \in [Threads -> Seq(DOMAIN Conversion)]
      /\ answer \in [Threads -> Answers]
    BY DEF FileInv, Inv, TypeOK, Steps
<1>3. ASSUME output[t].format = "fo"
      PROVE  output[t].doc = d /\ d \in Documents /\ Blocks[d] \in Nat
    <2>1. output[t].doc = d /\ d \in Documents
        BY <1>1, <1>3, Output DEF FileInv, Formats, XMLFormats
    <2> QED
        BY <2>1, RequestsAssumption
<1>4. OwnFile(t)
    BY DEF FileInv
<1>5. CASE /\ output[t].format = "fo" /\ written[t] < Blocks[output[t].doc]
           /\ file' = Put(written[t] + 1, output[t].doc)
           /\ written' = [written EXCEPT ![t] = @ + 1]
           /\ UNCHANGED <<pc, todo, output, answer>>
    <2>1. \A u \in Threads \ {t} : UNCHANGED Local(u)
        BY <1>1, <1>2, <1>5 DEF Local
    <2>2. pc'[t] = "write" /\ UsingFile' = UsingFile
        BY <1>1, <1>5 DEF UsingFile
    <2>3. written'[t] = written[t] + 1 /\ written'[t] \in Nat /\ written'[t] <= Blocks[d]
        BY <1>2, <1>3, <1>5
    <2>4. ASSUME t \notin crossed PROVE file' = Begun(written'[t], d)
        <3>1. file = Begun(written[t], d) /\ written[t] \in Nat
            BY <1>1, <1>2, <1>4, <1>5, <2>4 DEF OwnFile
        <3>2. Put(written[t] + 1, d) = Begun(written[t] + 1, d)
            BY <3>1, PutExtends
        <3> QED
            BY <1>3, <1>5, <2>3, <3>2
    <2>5. OwnFile(t)'
        BY <1>1, <1>4, <2>2, <2>3, <2>4 DEF OwnFile, Begun
    <2> QED
        BY <1>1, <2>1, <2>5, UserKeeps
<1>6. CASE /\ output[t].format = "fo" /\ written[t] = Blocks[output[t].doc]
           /\ Convert(t, [output[t] EXCEPT !.format = "pdf"])
           /\ UNCHANGED <<file, written>>
    <2>1. /\ pc'[t] = "convert" /\ UNCHANGED answer
          /\ output'[t] = [output[t] EXCEPT !.format = "pdf"]
          /\ \A u \in Threads \ {t} : UNCHANGED Local(u)
        BY <1>1, <1>2, <1>6 DEF Convert, Local
    <2>2. output'[t].format = "pdf"
        <3>1. output[t] \in Texts
            BY <1>1, Turning DEF FileInv
        <3> QED
            BY <2>1, <3>1 DEF Texts, Errors, Text, Markup
    <2>3. \A u \in Threads \ {t} : pc'[u] = pc[u] /\ output'[u] = output[u]
        BY <2>1 DEF Local
    <2>4. UsingFile' = UsingFile
        BY <1>1, <2>1, <2>2, <2>3 DEF UsingFile
    <2>5. OwnFile(t)'
        BY <1>1, <1>3, <1>4, <1>6, <2>1, <2>2, <2>4 DEF OwnFile, Begun
    <2> QED
        BY <1>1, <2>1, <2>5, UserKeeps
<1>7. CASE Abort(t) /\ UNCHANGED <<file, written>>
    <2>1. pc'[t] = "done" /\ \A u \in Threads \ {t} : UNCHANGED Local(u)
        BY <1>1, <1>2, <1>7 DEF Abort, Local
    <2>2. ~ SentPdf(t)' /\ t \notin UsingFile'
        <3>1. PICK status \in {500, Unmapped} : answer' = [answer EXCEPT ![t].status = status]
            BY <1>7 DEF Abort
        <3>2. answer'[t].status = status
            BY <1>2, <3>1 DEF Answers
        <3> QED
            BY <2>1, <3>2 DEF SentPdf, Unmapped, UsingFile
    <2>3. OwnFile(t)'
        BY <2>1, <2>2 DEF OwnFile
    <2> QED
        BY <1>1, <2>1, <2>3, UserKeeps
<1> QED
    BY <1>5, <1>6, <1>7 DEF WritePDF

LEMMA FinishKeepsFile ==
    ASSUME FileInv, NEW t \in Threads, Finish(t)
    PROVE  \A u \in Threads : OwnFile(u)'
<1> DEFINE d == request[t].body.doc
<1>1. /\ pc[t] = "convert" /\ todo[t] = <<>>
      /\ UNCHANGED <<request, todo, output, written, forms, file, crossed>>
    BY DEF Finish
<1>2. pc \in [Threads -> Steps] /\ answer \in [Threads -> Answers]
    BY DEF FileInv, Inv, TypeOK, Steps
<1>3. \A u \in Threads \ {t} : UNCHANGED Local(u)
    BY <1>1, <1>2 DEF Finish, Local
<1>4. answer[t] = NoAnswer
    BY <1>1, Turning DEF FileInv
<1>5. answer'[t].blocks = <<>> /\ answer'[t].text = output[t]
    <2>1. answer'[t] = [answer[t] EXCEPT !.status = 200, !.text = output[t]]
        BY <1>2 DEF Finish
    <2> QED
        BY <1>4, <2>1 DEF NoAnswer
<1>6. CASE output[t].format = "pdf"
    <2>1. pc'[t] = "read" /\ t \in UsingFile
        BY <1>1, <1>2, <1>6 DEF Finish, UsingFile
    <2>2. UsingFile' = UsingFile
        BY <1>1, <1>3, <2>1 DEF UsingFile, Local
    <2>3. d \in Documents /\ Blocks[d] \in Nat
        <3>1. d \in Documents
            BY <1>1, <1>6, Output DEF FileInv, Formats
        <3> QED
            BY <3>1, RequestsAssumption
    <2>4. 0 \in 0 .. Blocks[d] /\ answer'[t].blocks = Begun(0, d)
        BY <1>5, <2>3, NothingBegun
    <2>5. t \notin crossed => file = Begun(Blocks[d], d) /\ UsingFile = {t}
        BY <1>1, <1>6, <2>1 DEF FileInv, OwnFile
    <2>6. OwnFile(t)'
        BY <1>1, <2>1, <2>2, <2>4, <2>5 DEF OwnFile, Begun
    <2> QED
        BY <1>1, <1>3, <2>1, <2>6, UserKeeps
<1>7. CASE output[t].format # "pdf"
    <2>1. pc'[t] = "done"
        BY <1>1, <1>2, <1>7 DEF Finish
    <2>2. t \notin UsingFile /\ t \notin UsingFile' /\ ~ SentPdf(t)'
        BY <1>1, <1>5, <1>7, <2>1 DEF UsingFile, SentPdf
    <2> QED
        BY <1>1, <1>3, <2>2, QuietKeeps
<1> QED
    BY <1>6, <1>7

LEMMA SendFileKeepsFile ==
    ASSUME FileInv, NEW t \in Threads, SendFile(t)
    PROVE  \A u \in Threads : OwnFile(u)'
<1> DEFINE d == request[t].body.doc
           sent == answer[t].blocks
<1>1. /\ pc[t] = "read" /\ t \in UsingFile
      /\ UNCHANGED <<request, todo, output, written, forms, file, crossed>>
    BY DEF SendFile, UsingFile
<1>2. pc \in [Threads -> Steps] /\ answer \in [Threads -> Answers]
    BY DEF FileInv, Inv, TypeOK, Steps
<1>3. \A u \in Threads \ {t} : UNCHANGED Local(u)
    BY <1>1, <1>2 DEF SendFile, Local
<1>4. d \in Documents /\ Blocks[d] \in Nat
    <2>1. /\ answer[t].text.format = "pdf"
          /\ Left(t, Last(Chain[request[t].op]), answer[t].text)
        BY <1>1 DEF FileInv, Inv, Serving
    <2>2. d \in Documents
        BY <2>1 DEF Left, Errors, Text, Markup
    <2> QED
        BY <2>2, RequestsAssumption
<1>5. ASSUME t \notin crossed
      PROVE  /\ UsingFile = {t} /\ file = Begun(Blocks[d], d)
             /\ \E n \in 0 .. Blocks[d] : sent = Begun(n, d)
    BY <1>1, <1>5 DEF FileInv, OwnFile
<1>6. CASE /\ Len(sent) < Len(file) /\ UNCHANGED pc
           /\ answer' = [answer EXCEPT ![t].blocks = Append(sent, file[Len(sent) + 1])]
    <2>1. answer'[t].blocks = Append(sent, file[Len(sent) + 1])
        BY <1>2, <1>6 DEF Answers
    <2>2. UsingFile' = UsingFile
        BY <1>1, <1>6 DEF UsingFile
    <2>3. ASSUME t \notin crossed PROVE \E n \in 0 .. Blocks[d] : answer'[t].blocks = Begun(n, d)
        <3>1. PICK n \in 0 .. Blocks[d] : sent = Begun(n, d)
            BY <1>5, <2>3
        <3>2. Len(sent) = n /\ Len(file) = Blocks[d]
            <4>1. n \in Nat
                BY <1>4
            <4>2. Len(Begun(n, d)) = n /\ Len(Begun(Blocks[d], d)) = Blocks[d]
                BY <1>4, <4>1, BegunIsSequence
            <4> QED
                BY <1>5, <2>3, <3>1, <4>2
        <3>3. n + 1 \in 0 .. Blocks[d]
            BY <1>4, <1>6, <3>2
        <3>4. file[n + 1] = d
            <4>1. n + 1 \in 1 .. Blocks[d]
                BY <1>4, <3>3
            <4> QED
                BY <1>4, <1>5, <2>3, <4>1 DEF Begun
        <3>5. answer'[t].blocks = Begun(n + 1, d)
            BY <2>1, <3>1, <3>2, <3>4, AppendExtends
        <3> QED
            BY <3>3, <3>5
    <2>4. OwnFile(t)'
        BY <1>1, <1>5, <1>6, <2>2, <2>3 DEF OwnFile, Begun
    <2> QED
        BY <1>1, <1>3, <2>4, UserKeeps
<1>7. CASE ~ (Len(sent) < Len(file)) /\ pc' = [pc EXCEPT ![t] = "done"] /\ UNCHANGED answer
    <2>1. pc'[t] = "done"
        BY <1>2, <1>7
    <2>2. t \notin UsingFile'
        BY <2>1 DEF UsingFile
    <2>3. ASSUME t \notin crossed PROVE answer[t].blocks = Begun(Blocks[d], d)
        <3>1. PICK n \in 0 .. Blocks[d] : sent = Begun(n, d)
            BY <1>5, <2>3
        <3>2. Len(sent) = n /\ Len(file) = Blocks[d]
            <4>1. n \in Nat
                BY <1>4
            <4>2. Len(Begun(n, d)) = n /\ Len(Begun(Blocks[d], d)) = Blocks[d]
                BY <1>4, <4>1, BegunIsSequence
            <4> QED
                BY <1>5, <2>3, <3>1, <4>2
        <3> QED
            BY <1>4, <1>7, <3>1, <3>2
    <2>4. OwnFile(t)'
        BY <1>1, <1>7, <2>1, <2>2, <2>3 DEF OwnFile, Begun
    <2> QED
        BY <1>1, <1>3, <2>4, UserKeeps
<1> QED
    BY <1>6, <1>7 DEF SendFile

LEMMA NextKeepsFile == FileInv /\ [Next]_vars => FileInv'
<1> SUFFICES ASSUME FileInv, [Next]_vars PROVE FileInv'
    OBVIOUS
<1>1. Inv'
    BY NextKeeps DEF FileInv
<1>2. CASE Next
    <2>1. PICK t \in Threads :
              Receive(t) \/ Converts(t) \/ OpenPDF(t) \/ WritePDF(t) \/ Finish(t) \/ SendFile(t) \/ Return(t)
        BY <1>2 DEF Next, Converts
    <2> QED
        BY <1>1, <2>1, ReceiveKeepsFile, ConvertsKeepsFile, OpenPDFKeepsFile, WritePDFKeepsFile,
           FinishKeepsFile, SendFileKeepsFile, ReturnKeepsFile DEF FileInv
<1>3. CASE UNCHANGED vars
    BY <1>1, <1>3 DEF FileInv, OwnFile, UsingFile, SentPdf, Begun, vars
<1> QED
    BY <1>2, <1>3

\* A PDF that was written and sent while nobody else wrote or sent one is the PDF of
\* the questionnaire sent, whole and with nothing in it, whatever FOToPDF left in the
\* shared file before.
THEOREM PdfAlone == Spec => []PdfIsOwnAlone
<1>1. FileInv => PdfIsOwnAlone
    BY DEF FileInv, OwnFile, PdfIsOwnAlone, Begun
<1> QED
    BY <1>1, InitFileInv, NextKeepsFile, PTL DEF Spec
=============================================================================
