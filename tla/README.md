# Pogues Back Office: models, checks and proofs

Pogues Back Office is the REST server behind the questionnaire designer Pogues
(Java, Jersey and Spring on Tomcat). It stores questionnaires as JSON documents in
PostgreSQL, restricts who may change them by a lookup in an LDAP directory, passes
metadata requests on to Colectica, and turns questionnaires into DDI, XForms, ODT,
FO and PDF through XSLT stylesheets, the Eno web service and the publishing service
Stromae.

This directory holds TLA+ modules translated from that code, the TLC configurations
that check them on small instances, and proofs, checked by TLAPS, of what they say
for every instance. Paths below are relative to `src/main/java/fr/insee/pogues/`
unless they start otherwise. `PROJECT.json` maps every definition to the lines it
stands for.

    tlc -config Persistence.cfg MCPoguesPersistence.tla   # a run
    tlapm PoguesPersistenceProofs.tla                     # the proofs of a module

## Inventory

Every bean is a stateless Spring singleton unless this list says otherwise. Tomcat
serves each request on a thread of its own, so the concurrency of the system is that
of its requests. There are no background jobs and no caches, and the one queue is that
for the pooled connections of the remote client. Nothing is written to disk by the
application but temporary files and one PDF.

| Part | State | Operations | Talks to |
|---|---|---|---|
| Questionnaire persistence (`webservice/rest/PoguesPersistence`, `persistence/`) | table `pogues(id primary key, data jsonb)` | get, list, search by owner, metadata by owner, create, update, delete | PostgreSQL, one connection and one transaction per statement |
| Owner filter (`webservice/rest/OwnerRestrictedFilter`) | none | runs before `PUT` and `DELETE` | persistence (read), directory |
| Error mapping (`GenericExceptionMapper`, `PoguesExceptionMapper`) | field `STATUS` of the one mapper, shared by all threads | exception -> response | every resource |
| Users and directory (`user/`) | field `context` of the one service, shared by all threads | attributes of a user, list of permissions | LDAP |
| Conversions and publication (`webservice/rest/PoguesTransforms`, `transforms/`, `api/remote/eno`) | the file `form-final-out.pdf`, shared by all requests; forms published in Stromae | ten chains of conversions | Eno, Stromae, the stylesheets |
| GoTo stylesheets (`src/main/resources/transforms/xslt/1- … 4-*.xsl`) | none | GoTos of a questionnaire -> nested filters | - |
| DDI document assembly (`utils/ddi/`) | a DOM tree per call | replaces references by the fragments they name | Colectica items |
| Metadata, Search (`webservice/rest/PoguesMetadata`, `PoguesSearch`, `metadata/`, `search/`) | the connection pool of the one `RestTemplate`, shared by all requests of both | items, references, DDI, code lists, units, series, operations, collections, search | ddi-access-services, and through it Colectica |
| Colectica stand-in (`src/docker/colectica/app/middleware.js`) | a database it only reads | item, items, set | - |
| Other DDI stylesheets, JSON helpers, unused conversions, configuration, environment, seeds | none | - | - |

What is hard in them, and what would make them correct:

* **Persistence**: a creation is a check and an insert, an update or deletion is a
  filter (one read of the row, one directory lookup) and a statement, and nothing
  holds these together. Rows must change only as the filter allows, creations must
  not overwrite, updates must not revive, and callers must be able to think of each
  request as one step. The connection may break after a statement took effect.
* **Owner filter**: it decides on an owner it read earlier, and its refusals are
  final: a document without owner must not become unreachable (it does).
* **Error mapping**: a status kept in a shared field survives the request it is for.
* **Directory**: a connection kept in a shared field is overwritten, searched through
  and closed by whichever thread comes by. A lookup must never take one user for
  another or for nobody, since the filter decides on its answer.
* **Conversions**: a chain must stop at the first failure, must not publish what a
  failed conversion left, and two requests must not mix their documents. Nobody looks
  at the status of a web service, so what stops the chain is only whether the next
  conversion can read an error page, and where that is XML it can.
* **GoTo stylesheets**: four passes over a tree, each of which relies on what the one
  before it left. The filters that come out must nest, lose no question, and show the
  questions the GoTos would ask, however the GoTos overlap each other and the chapters.
* **Assembly**: it modifies the list it iterates over.
* **Metadata and search**: the pool holds fewer connections than there are request
  threads, waiting for one has no time limit, and a broken exchange is repeated over
  another one. No path through the client may keep a connection, and what is left on
  one must not be read by whoever gets it next.
* **Composition**: the filter of a write depends on a directory lookup that other
  lookups disturb, and what its caller is told on a status that other errors change.

`PROJECT.json` lists 40 hazards of this code, each at its line, with the properties
that would catch it going wrong or the reason why none does.

## Modules

### QuestionnaireStore and PoguesPersistence

`PoguesPersistence` is the resource, the filter and the table. One action is what a
thread does from one SQL statement or directory lookup to the next, the grain at
which requests really interleave:

| Action | Code |
|---|---|
| `Receive` | dispatch; `@OwnerRestricted` methods go through the filter |
| `FilterRead`, `CheckPermission`, `FilterFails` | `OwnerRestrictedFilter.filter`: the read of the row; the lookup and comparison; its last `catch` |
| `GetQuestionnaire`, `GetQuestionnaireList`, `SearchQuestionnaires`, `GetQuestionnairesMetadata` | the reading methods, one `SELECT` each |
| `CreateQuestionnaireCheck`, `CreateQuestionnaireInsert` | the two statements of `createQuestionnaire` |
| `UpdateQuestionnaire`, `DeleteQuestionnaire` | one statement each, and the row count it returns |
| `StatementFails`, `Acknowledge` | a statement that fails before, or after, it took effect |
| `Respond` | the response is written |

A document is its own `id` and `owner` fields (either may be missing) and a content;
the content only tells documents apart and says whether the metadata query finds all
fields it needs. Status `Unmapped` stands for an exception that no one expected.
The empty value of `fr.insee.pogues.authentication` is left out: the application does
not start with it. A user whom the directory does not have makes the filter throw.

`QuestionnaireStore` is what the resource promises, in about 40 lines: each call
reads or changes the table at one instant between its invocation and its return, or
leaves it alone, and its status says which. `PoguesPersistence` implements it with
`table <- pogues, call <- request`: the step that decides the answer is the abstract
call, all others stutter.

### GenericExceptionMapper

`toResponse` in three steps (the message is built, the field is assigned, the
response is built) because other threads come between them. The field is not
volatile, so a read gives the last value or, to a thread that never assigned it, the
initial one (`Visible`). `PoguesExceptionMapper` passes the status of its exception
on; that is how `PoguesPersistence` answers.

### UserServiceQueryLDAP

Both lookups of `UserServiceQueryLDAPImpl` over the shared `context`:
`InitConnection`, `Search`, `ReadEntries`, `CloseConnection`, between `Call` and
`Return`. `live` are the connections not closed, `abandoned` those an enumeration
still holds, `Finalize` is the garbage collector, and `overlapped` and `refused` are
history. What JNDI does (a closed context refuses a search but goes on serving an
enumeration that had begun) is external and named at the head of the module.

### PoguesTransforms

The ten operations of `/transform` as the chains of conversions they hand to their
`PipeLine`. A text is its format and the questionnaire it is about, or one of two that
are no document of ours: `Markup`, well-formed XML such as an error page in XHTML, and
`Text`, which is no XML.

| Action | Code |
|---|---|
| `JsonToXML`, `XmlToJson` | conversions done in this program, which throw on what they cannot read (`ConvertHere`) |
| `PoguesXMLToDDI`, `DDIToXForm`, `DDIToODT`, `DDIToFO` | what Eno does (`CallEno`); nobody looks at the status of its response, so an error page goes down the chain as a document |
| `XFormsToXFormsHack` | two stylesheets that adapt an XForm and copy any other XML nearly as it is; what is not XML makes them throw, and an element whose prefix they do not declare does too, so of other XML both outcomes are there |
| `XFormToURI` | Stromae stores any XML under the key, and may fail before or after; its status is not looked at either |
| `OpenPDF`, `WritePDF`, `SendFile` | the one PDF file, written through a stream per thread and sent after the resource method has returned |

So an error page of Eno in well-formed XML is adapted, published under the key of the
questionnaire, in place of its last form, and answered 200 with a URI; one that is no
XML makes the chain stop. `AnswerIsConvertedBody` and `PublishedIsConverted` say exactly
that much: what is answered or published is what the whole chain makes of the document
sent, except for such a page, and nothing in between. That the URI is that of the
document sent is what the resource documents, and the code departs from it
(`UriIsOfEntity`, below).

The temporary input files have unique names and are never shared; they are left out.

### GoToFilters

The stylesheets 1 to 4, which `XMLToDDIImpl` runs one after the other, each a function
on the document and a step `Pass(n)`. A document is the sequence of its tags. `Close`,
`Ancestors`, `Parent` and `Kind` are the axes of XPath the templates select with.

| Function | Stylesheet |
|---|---|
| `GoTo2IfThen` | `1-Goto2IfThen.xsl`: GoTos behind their question as `BeginIfType`, merged by target, the farthest first, with the condition negated |
| `GoGo2ToTo` | `2-GoGo2ToTo.xsl`: at a target, ends what is open since the first begin that points at it, and opens again what points farther |
| `GoTo2Sequence` | `3-GoTo2Sequence.xsl`: ends and begins at the bounds of chapters |
| `BeginEnd2Filter` | `4-beginEnd2filter.xsl`: the walk from child to next sibling that turns pairs into `FilterType` |

An expression is the disjunction the stylesheets write, as a set of literals. What the
GoTos mean is stated independently of the stylesheets: `Asked` follows the jumps,
`Shown` evaluates the filters around a question. `Possible` leaves out valuations in
which the condition of a question that is not asked holds. A person's data may well
hold such a leftover answer; then `AskedIsShown` says that no question is wrongly
hidden, within one chapter.

Left out: the `IfFalse` branch and GoTos of chapters, which no document in the
repository has, and the templates of stylesheet 1 for code lists and tables, which add
elements that none of this looks at. GoTos go forward.

### ColecticaMiddleware and PoguesMetadata

`ColecticaMiddleware` is the json-server of the containers. Node runs one handler at a
time and none writes, so each handler is an operator: `FindItem`, `PostItems` (which
answers the whole collection whatever is posted) and `GetSet`.

`PoguesMetadata` is `/meta-data` and `/search` over it. A request goes through
`Receive`, `Lease` (a connection of the pool), `Send`, then the remote side's `Handle`,
and one of `PassOn`, `AsList`, `Search`, `GetDataCollectionContext`, `GetFullDDI`,
`GetCodeList` or `Throws`, which differ in what they make of an empty body; then
`Respond`. `Refused` and `Break` are the network: a broken exchange goes back to
`Lease` as often as the retry handler allows (`MayRetry`: a GET, or a POST that was not
sent to its end). The pool and the retry handler belong to Apache HTTP client, the
remote service to another program; both are external and stated at the head of the
module as facts. Where the stand-in has a handler, the body of a response is that
handler's (`Bodies`).

### DDIDocumentBuilder

`buildNode`, with one action for a turn of the loop in `walk` and a stack for its calls.
`Resolve` appends the fragment to the live list of children and removes the reference
from it, so the sibling behind it moves to the index the loop has just done: of two
references side by side the second one is left in the document. `OnlyNeighboursAreMissed`
says that nothing else is, and `NothingIsLost` that everything stays under its node.
A fragment that cannot be parsed, and an empty one, end the call with an exception
(`Malformed`, `NoNodeMade`), as does a root nobody has a fragment for. Fragments are
assumed not to contain themselves (`FragmentsAssumption`); `walk` has no guard against it.

### BackOffice

`PoguesPersistence`, `UserServiceQueryLDAP` and `GenericExceptionMapper`, each taken by
`INSTANCE`, with the calls between them: the filter starts a lookup and takes its
outcome (`StartLookup`, `ComparePermission`), `/user` starts lookups of its own on the
same field, of the attributes of a user and of the permissions there are, and exceptions
nobody catches go through the mapper (`Throw`, `MapException`, `Respond`): those of
`/persistence`, those of a lookup of `/user` that fails (`AnswerLookup`), and the
router's for unknown paths. `ImplementsPersistence` is a second
refinement: `BackOffice` implements `PoguesPersistence`, in which the lookup was one
step that knows the permission. What is proved there rests on that step, and this
refinement, checked by the run and proved, is what justifies it. `Permission` is what a
lookup of a user that succeeds finds: the last entry, and nobody where there is no entry
or one without its attributes, which makes the lookup throw.

## Runs

| Run | Shows | Distinct states |
|---|---|---|
| `Persistence` | closed deployment, database and directory may fail: types, `ClearedBeforeWrite`, `RowLifecycle`, and that it implements the atomic store (`ImplementsStore`) | 144 942 |
| `PersistenceOpen` | open deployment: `OrphansAreForever`, a document stored without owner is never changed nor removed again | 38 266 |
| `ErrorMapping` | `UnknownPathAnswers404` under every race for the field | 1 289 |
| `Directory` | `LookupIsTruthful`: overlapping lookups fail but never lie; `FailureHasCause`: only overlap, the directory or an incomplete entry makes one fail; `NoLeakAlone`: one that ran alone closes its connection | 220 823 |
| `Transform` | `AnswerIsConvertedBody`, `PublishedIsConverted`, `PdfIsOwnAlone`, with error pages that are XML and others that are not | 2 820 184 |
| `GoToFilters` | `BeginsNest`, `FiltersNest`, `StructureIsCopied`, `DocumentKept`, `FiltersMeanGoTos`, `AskedIsShown`, for 1 963 questionnaires | 9 815 |
| `Metadata` | `PoolAccounted`, `AnswerBelongs`, and the liveness property `RequestsEnd`, over a pool smaller than the number of threads, with broken exchanges, retries and error answers; `PoolAccounted` is about the external pool and what `RequestsEnd` rests on | 43 193 |
| `DDIDocument` | `OnlyNeighboursAreMissed`, `NothingIsLost`, and `BuildingEnds`, for 9 604 sets of fragments, malformed ones among them | 65 305 |
| `BackOffice` | `ImplementsPersistence`, `ImplementsStore`: the whole is the atomic store to its callers, and `ToldIsTrue`: who is told that a write was made or refused is told the truth, and a 404 for a write that was made comes from the mapper only, behind an unknown path | 964 278 |

Three runs find the code departing from what its own documentation says; each has one
property and a counterexample:

| Run | The documentation says | The code does |
|---|---|---|
| `TransformPdfShared` | the PDF of the questionnaire sent | blocks of two questionnaires |
| `QuestionsLost` | the general case copies the structure and does not touch it | with three GoTos across chapters, questions between crossing filters are dropped |
| `UnexpectedErrors` | `code = 500, message = "Unexpected error"` (`PoguesSearch.java:55`) | once anybody has asked for an unknown path, or while somebody does, any other exception is answered 404 as well, until a restart |

`QuestionsLost` is why three of the properties of `GoToFilters` ask for `Simple`, GoTos
that stay in their chapters or no more than two of them. The questions are lost in the
fourth stylesheet: `StructureIsCopied`, which asks for nothing, has it that the three
before keep all of them, and `BeginsNest` that begins and ends still nest behind the
second. It is the third, which is to make them nest within chapters too, that leaves them crossing
there, and the walk of the fourth that then stops. On leaving a chapter the third
stylesheet takes the *first* begin of each identifier, where on entering it takes the
last; with two GoTos in nested chapters this already loses the "or the other one was
skipped" of a filter opened again, so that an asked question may be hidden by a leftover
answer. `AskedIsShown` therefore stays within one chapter.

Other departures are stated as definitions at the end of their modules, and TLC finds
each violated when it is put in the configuration named; they have no run of their own:

| Definition | Configuration | The repository says | The code does |
|---|---|---|---|
| `PoguesPersistence!MissingUpdateAnswers404` | `Persistence` | 404 when the questionnaire is not found | 500: `NonUniqueResultException` is not the exception the service catches |
| `PoguesPersistence!OwnersWriteOnly` | `Persistence` | "Permissions are verified using the 'permission' attribute of the user under control" (`docs/en/security/permissions.md:6`) | the filter compares with the owner it read; a row that changes hands before the statement is written by a user who no longer may |
| `PoguesTransforms!UriIsOfEntity` | `Transform` | "Get visualization URI from JSON serialized Pogues entity" (`PoguesTransforms.java:94`) | 200 with the URI of an error page of Eno, or with the error page of Stromae |
| `GoToFilters!SkippingIsNegated` | `GoToFilters`, with `Questionnaires <- MCMerged` | the condition to skip is replaced by the one to show (`1-Goto2IfThen.xsl:14-15`) | two GoTos `a`, `b` with one target give `not (a) or (b)` |
| `UserServiceQueryLDAP!PermissionsAreListed` | `Directory`, with `Faulty = FALSE` | 200 | a failure because another lookup closed the connection |
| `PoguesMetadata!ItemsAreThoseAsked` | `Metadata` | "Maps a list of ColecticaItemRef given as a payload to a list of actual full ColecticaItem objects" (`PoguesMetadata.java:101`); the stand-in is to behave like Colectica (`docs/fr/workflow/docker/docker-usage.md:89`) | the stand-in answers its whole collection, a null included |
| `PoguesMetadata!CodeListIsAnswered` | `Metadata` | "Gets the code-list with id {id}" (`PoguesMetadata.java:249`) | the service fetches the code list and answers nothing |
| `DDIDocumentBuilder!AllAreResolved` | `DDIDocument` | no doc; what a reader of `walk` expects | the second of two neighbouring references stays |
| `BackOffice!NotFoundIsUntouched` | `BackOffice` | 404 for a questionnaire that is not there | also behind a committed write, once somebody asked for an unknown path |

Seen in the modules without a definition: a refused creation is answered 409, or 500 if
the id appeared between check and insert, where `PoguesPersistence.java:211` documents a
400; an update that was made is answered 204, where `PoguesPersistence.java:183` says 200;
an update stores a document under an id that is not its own;
`docs/en/security/permissions.md` restricts `PUT` only, while the code restricts `DELETE`
as well.

### Bounds

* Threads: two, three for the error mapping. Every hazard listed is a race of two
  requests, or a sequence of requests of one, which unbounded reuse of a thread gives;
  the proofs are for any number.
* Persistence: two ids, two groups, and four documents that cover what the handlers
  tell apart: owned by one group and by another, complete and not, the same id twice,
  no owner, no id. Users of either group and one the directory does not have.
* Directory: five connections, one in the field, one made and one read from per
  thread. With fewer, `InitConnection` could find no name; a name is reused once nothing
  refers to it. Entries: a user with two, one with an incomplete one, one with none.
* Transforms: a PDF of one block and one of two, the least that lets a file be longer
  than the next and two writers interleave; two names equal but for case; both kinds of
  error page, from each web service and as the body of a request.
* GoTo stylesheets: six questions without a chapter, in two, in three, and in two nested
  ones, with every set of one, two or (for the first two shapes) three GoTos ahead, to
  questions or chapters. Three GoTos allow every way in which intervals nest, overlap and
  share an end, and a filter that is opened again twice. No other bound is set.
* Metadata: two threads on one connection, so that one waits whenever the other is in an
  exchange; one retry, so that an exchange may be repeated and given up; a burst of four
  requests of ten kinds, so that a connection is used again after every way an exchange
  can end. The collection has a null between two items, as `db.json` has; one identifier
  is referred to and not stored. The proofs are for any of these numbers.
* Assembly: a root of up to four children, one item below it of up to two, one below
  that: three references in a row, the same item twice, references nobody has, one
  without identifier, items within items at two levels, and each of the three malformed. The proofs are for any.
* Composition: one row, which is what two requests must meet at; three users, of the
  group, of another and of none; the database may fail and the directory not, whose own
  failures look like those of overlap to the filter and are checked in `Directory`.
* Symmetry is over threads and connections only, in runs whose properties treat them
  alike; no run with a liveness property uses it.

### Fairness

Two specifications state fairness, both as weak fairness of steps that nothing but the
scheduler can delay:

* `PoguesMetadata`: each thread goes on (`Step`), and the remote service answers what it
  has received (`Handle`), since every handler of the stand-in ends in `jsonp`. Breaking,
  refusing and receiving are not fair. Waiting for a connection is only weakly fair: a
  thread may see the connection taken by others again and again, so `RequestsEnd` speaks
  of a finite burst of requests. Without `Handle` it fails, as its mutant shows, for the
  client sets no timeout; a connection whose peer is gone without a sign is the same case
  and is not covered.
* `DDIDocumentBuilder`: one thread runs the loop (`WF_vars(Next)`).

The other specifications state none and claim no liveness. The code sets no timeout on
JDBC, LDAP or Eno calls: a remote that does not answer keeps the thread for ever.

Deadlock is checked in every run but those of `GoToFilters`, a conversion that ends after
its fourth pass, and `DDIDocument`, a call that returns.

## Proofs

`PoguesPersistenceProofs` proves, for any threads, identifiers, documents, users,
requests and permissions, with authentication on or off and with or without failures:

| Theorem | Says |
|---|---|
| `TypeCorrect` | `Spec => []TypeOK` |
| `WritesAreCleared` | `Spec => []ClearedBeforeWrite` |
| `LifecycleHolds` | `Spec => RowLifecycle` |
| `OrphansStay` | `Spec => OrphansAreForever` |
| `Refinement` | `Spec => ImplementsStore` |

It assumes `ConstantsAssumption` only: the shapes of documents and requests and that
`Null` is none of them. The inductive invariant is `TypeOK /\ InFlight`.
`ClearedBeforeWrite` alone is not inductive: `CheckPermission` compares with the owner
the filter read before, so the invariant has to say, of a thread at that step, that
the row it read existed and had an owner, that its request is one the filter guards
and that it names a user. `InFlight` also ties the step to the operation of the
request and the presence of an answer to the step `done`; the refinement needs that, to
know that the deciding step is taken by a call that is pending. `Refinement` then maps
each action either to one of `Invoke`, `Commit`, `Refuse`, `Select`, `Return` or to a
stutter.

`GenericExceptionMapperProofs` proves `TypeCorrect` and `UnknownPathHolds` for any threads
and errors. The strengthening says that a thread
is among the writers of the field once it has assigned it, and that the field is
`NOT_FOUND` as soon as there is a writer.

`UserServiceQueryLDAPProofs` proves, for any threads, lookups, entries and connections,
and with or without failures of the directory, `TypeCorrect`, `TruthfulLookup`
(`LookupIsTruthful`), `CauseOfFailure` (`FailureHasCause`) and `ClosedAlone`
(`NoLeakAlone`). The last two are not inductive: of a lookup that ran alone the invariant
says that no other thread is busy (`Alone`), so that the field holds its own connection
from `InitConnection` to `CloseConnection`, open until the search is over; `Outcomes`
says of every lookup with an outcome what that rests on, and of one that succeeded that
no entry it read was incomplete. It assumes `LookupsAssumption`.

`PoguesMetadataProofs` proves `TypeCorrect`, `PoolIsAccounted` and `AnswersBelong`, for any
database, threads, connections, number of retries and requests. The three are inductive
together: a response belongs to the request it is read for because what is under way on
a connection is its holder's (`PoolAccounted`) and answers what was sent (`TypeOK`). That
`FindItem` finds an item there is comes from the well-ordering of the positions. It
assumes `ColecticaAssumption` and `MetadataAssumption`.

`PoguesTransformsProofs` proves, for any threads, questionnaires, sizes of PDFs, names and
requests, and with or without failures:

| Theorem | Says |
|---|---|
| `TypeCorrect` | `Spec => []TypeOK` |
| `AnswersAreConverted` | `Spec => []AnswerIsConvertedBody` |
| `PublishedHolds` | `Spec => PublishedIsConverted` |
| `PdfAlone` | `Spec => []PdfIsOwnAlone` |

The properties speak of answers and published forms only; what makes them true is on the
way. `Serving` says of a thread how many conversions of its chain it has run and that its
text is what the last of them makes of the body it was sent, the error page of a web
service just called, markup the stylesheets have copied, or the URI of such markup
(`Left`). `OwnFile` says of a thread
that has had the PDF file to itself (`t \notin crossed`) that no other one writes or
sends it, and that the file holds the blocks it has written and no others: opening the
file truncates it, so a longer one that was there before leaves nothing. The chains
themselves enter by `ChainShape`: a PDF is made and a form published at the end of a chain
only, and what is published there has just been adapted, unless a client sent it to be.
It assumes `RequestsAssumption`.

`DDIDocumentBuilderProofs` proves, for any fragments that do not contain themselves,
however long and deep:

| Theorem | Says |
|---|---|
| `TypeCorrect` | `Spec => []TypeOK` |
| `NoChildIsLost` | `Spec => []NothingIsLost` |
| `NeighboursAlone` | `Spec => []OnlyNeighboursAreMissed` |
| `ResolvedWhenApart` | `Spec /\ KeptApart(references) => []AllAreResolved`: what a reader of `walk` expects holds where no fragment has two references with fragments side by side |

These speak of a built document; the invariant describes the list under the loop at every
turn. `Laid`: what was not replaced comes first, the items behind, both in the order of
the fragment. `Walked`, of a loop at index `i`: what is not an item from `i` on has the
places that follow each other in the fragment, behind all that was replaced, and a
reference passed over is the neighbour of one that was replaced. A node has one call of
`walk` at most, and one that has none is walked to its end (`Left`), because a call
returns only behind its last child. `ReplaceKeeps` is the lemma about `walk` itself:
taking a child out of the list and appending its item keeps both, at the next index.
It assumes `FragmentsAssumption`, of which the depth of fragments is not used: that only
matters to `BuildingEnds`.

`BackOfficeProofs` proves, for any threads, questionnaires, users, directory and
connections, with or without failures of the database and the directory:

| Theorem | Says |
|---|---|
| `PartsAreThemselves` | `Spec => Directory!Spec /\ Mapper!Spec` |
| `PartsAreAsAssumed` | the constants of the three parts satisfy the assumptions of their modules |
| `Refinement` | `Spec => ImplementsPersistence` |
| `ToldHolds` | `Spec => []ToldIsTrue` |
| `StoreIsAtomic` | `Spec => ImplementsStore` |
| `RowsAreGuarded` | `ClearedBeforeWrite`, `RowLifecycle` and `OrphansAreForever` of `PoguesPersistence` |
| `LookupsAreTruthful` | `LookupIsTruthful`, `FailureHasCause` and `NoLeakAlone` of `UserServiceQueryLDAP` |
| `UnknownPathsAnswer404` | `UnknownPathAnswers404` of `GenericExceptionMapper` |

The first two make what is proved of the parts hold of the whole, and the last four say
what that is. Their proofs instantiate the proof modules of the parts
(`PersistenceTheorems`, `DirectoryTheorems`, `MapperTheorems`) and cite the theorems there;
what they add is that a definition instantiated here is the one instantiated there.
`StoreIsAtomic` is `Refinement` followed by the refinement of `PoguesPersistence`.

For the directory
and the mapper every step of the whole is a step of theirs or invisible to them. For
`/persistence` that takes an invariant (`AtWork`): a thread is in the directory for its
filter, with the user of its own request, or for `/user`; and a lookup about to return has
failed or found what the directory has (`Settled`). Then `ComparePermission` is
`CheckPermission` or, where overlapping lookups made it fail, `FilterFails`. `ToldIsTrue`
needs more: `Truthful` ties the history of writes to the step and status of each thread,
and `Mapped` says that the mapper answers 404 only once its field does, which some thread
has then written for an unknown path. What it does not say is that a caller told 404 has
written nothing. That is false: behind a committed write whose connection broke, the field
may say 404 to its caller. `ToldIsTrue` confines it to that case, in which the mapper
answers and somebody had asked for an unknown path, and `NotFoundIsUntouched` states what
is violated there. It assumes `BackOfficeAssumption`.

`GoToFiltersProofs` proves, for any questionnaire and any GoTos ahead, of any number and
however they overlap and cross chapters:

| Theorem | Says |
|---|---|
| `StructureSurvives` | `Spec => []StructureIsCopied` |
| `BeginsAreNested` | `Spec => []BeginsNest` |

It assumes `QuestionnairesAssumption`: the tags of chapters match, identifiers are unique,
and GoTos are of questions and go ahead, which the documents of the repository and XML
itself justify. The inductive invariants are what a pass may rely on. `CopiedSoFar`: up to
the fourth pass the document is made of tags the stylesheets can write (`Tag`), and what is
kept of it is the questionnaire's document; the third pass, which looks for the other tag
of a chapter, needs that for its template to be defined at all. `NestedSoFar`: besides,
behind the first pass there are no ends and every begin points at a question or chapter
behind it (`Aimed`), which is why each one is ended in the second, and behind that they nest.

A pass joins what a template makes of each tag, so the proofs go through a document tag by
tag. For `StructureSurvives`, each template puts in only begins and ends beside the tag it
copies, and the tags of a structure are those of its pieces joined. For `BeginsAreNested`,
what is open behind the tags the second pass writes up to `i` is exactly the begins whose
targets have not been passed, in the order of the document (`Pending`, `Stack`); those the
template selects at a target, the first that points there and what is open behind it, are
the top of that stack. It takes them off from the top and puts those that point farther
back on (`PendingAtTarget`, `ReadsTarget`).

The induction theorems of the library take an operator as a parameter, which the provers
cannot instantiate. The induction here is over the positions of a document and goes
without: `LeastNumber` (a set of numbers has a least one, from the well-foundedness of `<`)
gives `UpTo`, with a *set* of numbers for the operator, and `Recursion`, with a *function*
for the step, from which the recursive functions of the model (`InOrder`, `Nested`) and of
`FlattenSeq` satisfy their equations.

Only model-checked are:

* `FiltersNest`, `DocumentKept`, `FiltersMeanGoTos` and `AskedIsShown`. All are restricted
  to `Simple`, or to `WithinChapters` which is a part of it: that begins and ends nest with chapters behind the third stylesheet is true
  of two GoTos and false of three, so a proof is by cases of how two of them lie between
  chapters, and none was attempted. The last three are also about the walk of the
  fourth stylesheet and the recursive meaning of GoTos.
* Liveness (`RequestsEnd`, `BuildingEnds`), which is out of the prover's reach.

## Not modelled, and why

* The bodies of remote answers other than the stand-in's: `/meta-data` and `/search` hand
  them on, so a text is known by the request it belongs to. Network failures are those the
  client notices.
* The envelope `DDIDocumentBuilder.build` puts the nodes in, and `DDIFunctions`, which reads
  identifiers at fixed places of a fragment: layout of text, called by its tests.
* The remote questionnaire repository, the convertor, `DDI32ToDDI33` and `DDIToPDF`: no
  resource reaches them. `StromaePublishing` is not registered.
* Configuration: done once at start. What the models need of it is in their comments.
* `XMLToDDIImpl`, which runs the GoTo stylesheets, is reached by its test only; the
  resources leave that conversion to Eno. It is modelled as it is the code's own algorithm.
* The DDI stylesheets other than the GoTo ones rename and copy elements.
* Two editors who overwrite each other: an update carries no version and the code
  promises nothing, so the atomic store allows it.

## Plan

Done: the components in the order above, their composition, and the proofs of every
safety invariant, action property and refinement the passing runs check but the four of
`GoToFilters` named above. Left:

1. `FiltersNest` for GoTos within chapters, where the third stylesheet should change nothing:
   with `BeginsNest` and the nesting of chapters it should follow, and `DocumentKept` with
   a lemma about the walk of the fourth.
2. The temporary files and HTTP clients of the conversions, if a bound for them is ever set.
