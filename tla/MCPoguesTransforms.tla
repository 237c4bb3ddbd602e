------------------------- MODULE MCPoguesTransforms -------------------------
(***************************************************************************)
(* Two threads; a questionnaire whose PDF is short and one whose PDF is    *)
(* long; two names that differ in case and a third one.                    *)
(***************************************************************************)
EXTENDS PoguesTransforms, TLC

CONSTANTS t1, t2

MCThreads == {t1, t2}
MCDocuments == {"short", "long"}
MCBlocks == [short |-> 1, long |-> 2]
MCNames == {"Survey", "SURVEY", "other"}
MCLowerCase == [Survey |-> "survey", SURVEY |-> "survey", other |-> "other"]

Req(op, format, doc, name) ==
    [op |-> op, body |-> [format |-> format, doc |-> doc], name |-> name]

\* The operations that give a PDF, with the body they ask for and with others.
MCPdfRequests ==
         {Req("visualizePDF", "json", d, "other") : d \in MCDocuments}
    \cup {Req("ddi2pdf", "ddi", d, "other") : d \in MCDocuments}
    \cup {Req("fo2pdf", "fo", d, "other") : d \in MCDocuments}
    \cup {Req("visualizePDF", "text", Null, "other"),
          Req("ddi2pdf", "markup", Null, "other"),
          Req("fo2pdf", "markup", Null, "other")}

\* The other ones.
MCTextRequests ==
         {Req("visualize", "json", "short", "Survey"), Req("visualize", "json", "long", "SURVEY")}
    \cup {Req("visualizeFromDDI", f, "short", "Survey") : f \in {"ddi", "xml"}}
    \cup {Req("visualize", "ddi", "short", "other")}
    \cup {Req("visualizeSpec", "json", "short", "other"),
          Req("visualizeDDI", "json", "short", "other"),
          Req("json2xml", "json", "short", "other"),
          Req("xml2json", "xml", "short", "other"),
          Req("xform2uri", "xform", "long", "Survey")}
    \cup {Req(op, "text", Null, "other") : op \in {"visualize", "json2xml", "xform2uri"}}
    \cup {Req(op, "markup", Null, "other") : op \in {"xml2json", "xform2uri"}}

MCRequests == MCPdfRequests \cup MCTextRequests

Symmetry == Permutations(MCThreads)
=============================================================================
