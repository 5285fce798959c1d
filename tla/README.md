# The iSNS server: a verification development

These modules specify the iSNS name server of this repository
(`src/isns/myisns/isnsserver`) and its client (`isnsclient`), model-check them
with TLC on small instances and prove theorems about the server with TLAPS.
`PROJECT.json` gives, for every definition that models code, the lines it
stands for, and for every property the run that checks it and a mutant of the
code that breaks it. File names below are those of
`src/isns/myisns/isnsserver/src/`, unless they are said to be the client's.

Contents: 1 the system · 2 hard behaviours · 3 modules and code · 4 runs and
bounds · 5 fairness · 6 proofs · 7 disagreements found · 8 not modelled ·
9 plan · 10 running it.

## 1. The system

An iSNS server keeps a registry of storage devices. Clients register
*entities* with *portals* and *nodes*, and group nodes into *Discovery Domains*
(DD), which are enabled through *Discovery Domain Sets* (DDS). Two nodes see
each other when an active DD has both.

| Component (files) | State | Operations | What makes it correct | Module |
|---|---|---|---|---|
| Discovery Domains and Sets (`iSNSreg.c`, `iSNSdereg.c`) | tables of DDs (name, active flag, member list, list of sets) and DDSs (name, status, list of DDs) | register / deregister a DD, a member, a DDS, a DD of a DDS; spread a change of status | lists of DDs and sets refer to each other both ways; no duplicates; names unique | IsnsDomains, IsnsRegistry |
| Entities, nodes, name index (same files, `iSNSobjects.c`) | tables of entities (type, node list), nodes (entity, active flag, list of DDs), index of names with a reference count | register / replace / remove an entity or a node | the index of a used name is never freed; an entity lists only its nodes; a node knows the DDs that list it | IsnsNodes, IsnsRegistry |
| Portals and inquiries (ESI) (portal handlers of `iSNSreg.c` and `iSNSdereg.c`, `iSNSesi.c`) | portal table, portal indexes, counters and ages of inquiries, descriptors | register, move, replace, remove; send an inquiry, take an answer | a portal that answers is kept, one that does not is removed; every portal has an entity and an index | IsnsPortals |
| State change notifications (`iSNSscn.c`) | the events and the descriptor of each node | send to the members of a node's DDs or to those who asked for all | who shares an active DD is told of a change | IsnsScn |
| Queries (`iSNSquery.c`) | the global list `dlist_node` | attribute query, get next, scope by DD | only objects in scope are shown, and all of them; a walk in many requests misses nothing | IsnsQuery |
| Main loop and state machine (`iSNSMain.c`, `iSNSfsm.c`, `iSNSLinux.c`, `iSNSipc.c`) | state of the machine, `sns_ready`, `isns_role`, `sns_fsm_timeout`, the IPC socket | receive and handle a message, timeout event, role change | becomes the primary server; serves as the primary only; acts on every heartbeat | IsnsServer |
| TCP connections (`iSNStrcv.c`, `iSNScomm.c`) | listening port, descriptors, the buffer of each thread | bind, accept, read, cut into messages, wait for `sns_ready`, forward, close, reply | messages are forwarded whole and in order; nobody waits for ever | IsnsServer, IsnsStream |
| Object store (`iSNSdb.c`, `iSNSList.c`, `iSNSdbMem.c`, `iSNSMemData.c`, `sys/list.h`, `iSNSdbLdap.c`, `iSNSLdapLib.c`) | tables and lists of linked cells in memory, entries of an LDAP directory, connection | write, delete, AddNode, RemoveNode, DeleteList, walks; bind, retry, reconnect; open | every call has its effect once; both copies agree unless an error was reported; walks survive removals | IsnsStore, IsnsLists |
| iSNS client (`isnsclient/src/isns.c`, `comm.c`) | the command buffer, a ring of answers, the connection | command, wait for the answer, respond to inquiries and notifications | a command gets its own answer, an inquiry its own number | IsnsClient |
| Queue of forwarded requests (`iSNSqueue.c`) | list of requests with retry counters | add, check, remove | – | not modelled: stays empty |
| Portal groups; iFCP and Fibre Channel nodes (`iSNSreg.c`, `iSNSdereg.c`) | tables of their own | register, list | – | not modelled, section 8 |
| Parsing and tables (`iSNSparse.c`, `iSNSUtil.c`, `iSNSbuffer.c`) | none | decode and encode TLVs | data, not control | not modelled |
| Older store (`iSNSNdb*.c`, `iSNShash.c`, `iSNStbl.c`), UDP receiver (`iSNSrcv.c`), Windows port (`iSNSnt.c`) | – | – | replaced, never started, not built | not modelled |

How they interact. A thread per TCP connection reads a message, waits for
`sns_ready` and sends it as a datagram to a local socket (*IPC socket*). The
timer threads send their events to the same socket. The main thread takes one
datagram at a time and runs its handler to the end; handlers are therefore
atomic with respect to each other and the tables need no locks. What is shared
without a queue are a few flags (`sns_ready`, `sns_fsm_timeout`, `isns_role`,
the port) and the descriptors that replies, inquiries and notifications are
written to. Handlers read objects as copies, but the *list* fields of an object
are shared by all its copies: an edit of a list takes effect at once, a change
of a scalar field when the object is written. Each write goes to memory and to
the directory.

## 2. Hard behaviours

Every hazard is listed with its line under `hazards` in `PROJECT.json`. In
short: handlers that fail half way with their list edits done; copies of
objects and list elements that are changed and not written back; buffers and
global lists that are reused while they still hold something; walks whose body
removes the element they stand on, or that are spread over many requests; a
timer flag read by two parties; descriptors and counters that outlive what they
were stored for; a full datagram socket; a stream cut anywhere; two stores
updated one after the other, with failures, lost answers, retries and crashes
in between; a client whose two threads share a buffer and a ring without a lock.

## 3. Modules and code

```
IsnsDomains  <-  IsnsNodes  <-  IsnsRegistry  <-  MCRegistry
                     |            ^
                     |            |----  IsnsQuery  <-  MCQuery,  IsnsRegistryProofs
                     ^----  IsnsScn  <-  MCScn,  IsnsScnProofs
IsnsPortals  <-  MCPortals,  IsnsPortalsProofs
IsnsServer   <-  MCServer,   IsnsServerProofs
IsnsStream   <-  IsnsStreamProofs
IsnsObjects  <-  IsnsTable   (abstract)
             <-  IsnsStore   (detailed; Table == INSTANCE IsnsTable WITH ...)
                       ^----  MCStore,  IsnsStoreProofs
IsnsChain    (abstract)
             <-  IsnsLists   (detailed; Chain == INSTANCE IsnsChain WITH ...)
                       ^----  MCLists,  IsnsListsProofs
IsnsClient   <-  IsnsClientProofs
```

**IsnsDomains, IsnsNodes** hold the tables as a record
`[entity, node, idx, dd, dds]` of functions and each handler as an operator from the
tables before the request to those after it. **IsnsRegistry** has the
variables `db` and `up`, and one action per request type that applies the
handler to any request of a given set. This is faithful because main runs
handlers one at a time. What a handler does on its error paths is part of it:
`RegisterDD` leaves behind what its member step did when the name is refused
afterwards, `PlaceDDS` the link to the first DD when the second does not
exist. Names are compared as the code does, with `Prefix` for
a comparison that takes the length of the new name, and `Truncated` for a copy
through a buffer of the size of a pointer. A request for a DD carries the name that
the server makes up where it gives none (`auto`), with a random suffix if need be;
the server goes on until no other DD has it (`MadeUp`). The walk over a set's DDs reads
each DD into the buffer that holds the set (`Walks`): how it goes on depends on
the number of list edits, which the model leaves open, and running beyond the
end may crash (`CrashInRegDDS`).

**IsnsPortals** has entities, portals and portal indexes, in the same style. A
registration may name the entity in the message keys or leave it to the
response, may move the portal from one entity to another (whose list keeps the
entry), and with *replace* removes it first and is then refused. `ESI` sends an
inquiry where the interval of a portal has passed and removes, after the walk,
those that have left `esi_sent_limit` of them unanswered; descriptors are
closed and reused as in IsnsServer, and an answer counts for the portal it
names. Time is the age of the last inquiry, counted up to `MaxAge`.

**IsnsScn** adds to the tables of IsnsNodes the order of each node's list of
DDs, what each node asked to be told and the descriptor it asked on. A
notification walks the DDs in order, skips inactive ones, and ends at the first
DD that is not stored or the first member that is not registered. `told` is
what the last step has sent, and to whom: a descriptor that has been reused is
someone else's.

**IsnsQuery** extends IsnsRegistry: the requests of other clients are its steps
`Change` and `ChangeSet`, a query is a further step that reads the tables. The
only state of queries is `dlist_node`. A walk (GetNext) is one request per
answer, so its position is state of the client, `walk`, together with the ghost
`owed`: what the walk must still show because it has been there all the time.

**IsnsServer** has the threads: `Main` with a program counter for the steps
between which other threads can be seen (the timer's flag, `sns_ready`, then
`isns_role`, then the expiry of entities, then the tail of the loop), the
heartbeat timer in two steps (flag, then event), the ESI timer, the acceptor
and a thread per descriptor. `accept` gives out the lowest free descriptor. A
request is only what it is for this module: a message with a descriptor;
what it does to the tables is IsnsRegistry's. Nobody
gives the state machine an event other than the heartbeat timeout, so
`NextState` and `ReadyAfter` are that column of its table.

**IsnsStream** is the inside of one of those threads: a buffer with a start and
an end, `recv` that returns any number of bytes, the parse loop that forwards
each whole message, and the move of what is left to the begin of the buffer
(`memcpy`, so what an overlapping move leaves behind is not determined). A byte
is its place in the stream, so that `Intact` can say which bytes were forwarded.
After an overlap the thread may parse bytes that no client sent (`pc = "astray"`)
and nothing more is said of it.

**IsnsTable** is what the handlers, and IsnsRegistry, rely on: a table of
objects in which a call takes effect exactly once before it returns, whether
it then reports success or not. **IsnsStore** is the code: memory first and
the directory second for what adds, the opposite for what removes; each
request to the directory is made, and after any error made once more on a new
connection; it may be refused, fail, or be carried out and its answer lost.
`mem` and `dir` are the two copies, `draft` the list of an object that a
handler has started (`InitList`, `AddNode`) and not written, `todo` the
requests left, `link` the connection (`g_pstLDAP`). A list is written to the
directory before its object is, under an entry without scalar fields (`Void`).
`Crash` can come at any step; `Restart` needs the directory, and does not read
it. The second search for an entry in `_ldap_AddVoidDDIfNeed` is left out: only this
server writes to the directory and main makes one call at a time, so it finds what the
first one found or fails like the request that follows. Handlers read from
memory alone, so IsnsRegistry needs nothing but memory; a handler that returns
early because a write reported an error is the one thing it leaves out.

**IsnsChain** is what the handlers rely on of lists and tables: a sequence, a
set of keys, and a walk that takes every element once. **IsnsLists** is the
memory: cells of doubly linked circular queues (`DTQ` of `sys/list.h`), handed
out by `malloc` and taken back, with the version that tells
a walk whether the cell it goes on from is still the one it was given. `fresh`
are the cells whose version is the list's: the version is a counter of
changes, and nothing else is asked of it. The handlers have three kinds of walk:
`drain` (`GetNextData`, which remembers the next cell, with a body that removes
the element it was given), `scan` (`GetNextNode` with a body that only looks)
and `first` (the first element is removed until none is left). The refinement
maps the cells from the head on to the sequence they hold.

**IsnsClient** has the thread of the menu and the receiving thread step by
step, both writing to the static buffer `cmd`, the ring with its entry that is
visible before its message is copied, and the server as the client sees it,
which answers each command it takes up and may send inquiries and notifications.
It may lose a message, because its IPC socket is full (`Lose`, noted in `dropped`),
and may close the connection, which ends the client (`Closed`). `spoilt`
and `torn` are ghosts: the threads have met in the buffer, in the ring.

## 4. Runs and bounds

| Run | Question | Instance, and why it is enough |
|---|---|---|
| membership | Does a sequence of registrations, failed ones included, free an index in use, list a name twice, leave a node ignorant of a DD, or give two DDs one name? | two names, one a prefix of the other and what it is truncated to; two DDs, so that a node is in several and a name can collide; one entity; counts up to `MaxRefs = 3`, more than the DDs that can hold a name, so a count too high shows |
| sets | Do sets and DDs refer to each other both ways through every status, failure and walk? Does an entity list only nodes registered under it? | two DDs (the walk has a first, a middle and a last step), one set that is replaced and removed at any time; two entities between which a node moves, every type and replacement; DDs here have no members, membership has those |
| portals | Is a portal always owned, kept while it answers, removed when it does not? | one portal that moves between two entities; one client and one descriptor, so that every connection reuses the last one's; three unanswered inquiries remove, so that there is a first, a middle and a last; `MaxAge = 2` is an expired interval, whatever its length; two indexes, so that a new one differs from the last |
| scn | Is a node that registers announced to its fellows, and no change told beyond the active DDs of its node? | two names, two DDs, one client and descriptor; one event is asked for or none, since an event only selects |
| members_told | Is every member of a node's DDs told? | three names: a member between the node and the one to be told |
| query | Are fellows shown to one another and nodes with their entity, do walks miss nothing? | two nodes that move between two entities; one DD and one set, as scope is by common DDs and needs one; a walk between whose requests any others may come, of the second node, so that what comes first may be hidden from it |
| portal_scope | Is a portal shown only within scope? | the same instance |
| server | Do main, timers and connections make progress, and is a request taken up by a primary server only? | one client on one descriptor, so that every connection reuses the last one's; an IPC socket of two datagrams, so that a timer and a client can each fill it for the other |
| stream | Are messages forwarded whole, in order, and settled? | a header of two bytes, so that it can be cut; a buffer of five and messages of two to six, so that a message fills it, and one does not fit; three messages, so that a move of what is left is followed by another |
| store | Does a call take effect once, do both copies agree where no error was reported, is what was acknowledged in the directory? | two objects, so that a call on one can disturb the other and a draft meets a stored object; two values, so that an overwrite shows; one item, that is in a list or not; any number of failures, crashes and restarts |
| lists | Do linked cells behave as sequences and sets under every reuse of freed cells? | four cells for a list and a table together, so that every cell can be reused by the other; three data, so that a walk has a next but one |
| client | Does a command get its own answer, and an inquiry its own number? | three commands and a ring of two, so that the ring goes round; two events, so that one meets a command and one another |

`CHECK_DEADLOCK FALSE` stands where the system may really stop: the server of
the registry after a crash (and where `MaxRefs` ends registrations), a client
that has left, a connection that is closed. The bounds that the code does not
have are `MaxRefs` (a guard of `RegDD` alone), `MaxIdx` (of new portal
indexes), `MaxSent` (messages of a connection), `MaxCmds` and `MaxEvents`
(of the client), and the number of `Cells`. `QueueCap` is the size of a socket buffer, `FDs`
the descriptors that can be open, `MaxBuffer` and `QSize` sizes of the code
scaled down. Symmetry is used for cells (`lists`) and names (`scn`), in runs of
safety properties only.

## 5. Fairness

`FairSpec` of IsnsServer: weak fairness of `Main` (the loop of `SNSMain` never
blocks but in receiving), of both steps of the heartbeat timer (it sleeps and
wakes for ever), of `Bind`, and of `Forward` for every descriptor (the thread polls `sns_ready`
and then sends). Nothing is assumed of clients: they need not connect, send
or close. Nothing is assumed of the ESI timer, which is configured to run or
not. Liveness: `BecomesPrimary`, `HeldReleased` (no connection waits for
`sns_ready` for ever) and `HeartbeatsGoOn` (every heartbeat is acted on although
its event may be dropped: the loop tail looks at the flag).

`FairSpec` of IsnsPortals: time passes (`Second`) and the ESI timer, configured
to run, has its event handled (`EsiTick`); clients are free. `SilentPortalRemoved`:
no portal with an interval stays for ever without an answer or a new
registration, although its interval, connection and entity may change for ever.

`FairSpec` of IsnsStream: the steps of the reading thread, and that the server
becomes ready (the server's `BecomesPrimary`); neither timeouts nor failures are forced, nor
does a client have to complete a message. `EachSettled`: a whole message is
forwarded or the connection is closed.

`FairSpec` of IsnsClient: a command once begun is carried on, the receiving
thread goes on, and the server takes up, or loses, what it is sent;
nobody has to begin a command. `Answered`: a command that waits is answered,
unless the threads have met in the buffer or the ring, the server has lost a
command or the client has ended. The menu has no time limit (client `comm.c:282`):
after a loss it waits until the server closes the connection, and as long as
inquiries keep that in use.

No strong fairness is used. The other modules have safety properties only.

## 6. Proofs

All theorems hold for every value of the constants that satisfies the named
assumptions of the modules: `Prefix` is reflexive and `Truncated` a function;
the ids of DDs are finitely many numbers, none of them 0 (`ISNS_GetNewDD_ID`
begins with 1); the default names are symbolic names, and not the empty one; there
is an id for the default DD and one for the default set; names
of nodes and of entities have bounded length, so there are finitely many, and the
keys of a table are ordered; the owner of a closed descriptor is no client; the
IPC socket holds at least one datagram; empty scalar fields are no value; the
cells of malloc are finitely many, none of them a head, null or the address that
stands for no element, and the keys of a table are positive numbers.

The tables (IsnsRegistryProofs):

* **TypeCorrect**: no request makes the tables ill-typed. Typing is inductive as
  it stands; each handler has a lemma. The one part that is not a matter of
  shape is that a reference count stays a natural number, because `ReleaseIdx`
  writes no negative count.
* **SoundAlways, IndexAlwaysHeld**: every name of a registered node and of a
  member has an index, with a count not below the number of DDs that list it.
  Not inductive alone: a removal takes one member out and gives one reference
  back, so a DD that listed a name twice would keep a name whose count is too
  low. The inductive `Sound` adds `UniqueMembers` and types. The steps that do
  not touch members are dispatched by `SameMembers`.
* **SetsListedAlways, NoDuplicatesAlways**: the links between domains and sets.
  `Linked` joins `UniqueLinks` and `DDsOfSets`, and neither is inductive alone:
  taking an id out of a list takes out one cell, so a DD that is deleted could
  stay in a set that had it twice; and a set that lists a missing DD is not
  deleted, although the DDs before the missing one have dropped it. `SameLinks`
  dispatches the handlers that touch no link; the lemmas on `AppendNew` and
  `Without` say what they do to a list without duplicates. With `Sound` for the
  members this gives `NoDuplicates`.
* **ListedNodesAlways**: an entity lists only nodes registered under it.
  Inductive on well-typed tables; the case that is not plain is a replacement of
  a node whose entity is not stored, where the old node stays and no entity may
  list it when it is overwritten.
* **MembersKnownAlways**: a registered node knows every DD that lists it.
  `NodesKnowDDs` is inductive together with `UniqueMembers`: a node that leaves a
  DD forgets it, and only one member of its name goes.
* **DDNamesUniqueAlways**: two DDs never have the same name. What has to be shown
  is that every way to a name compares it: one that is asked for
  (`Check_Unique_DD_Sym`), one that is made up (`MadeUp`) and the default; and
  that a refused registration leaves no DD behind without that.

Queries and walks (also in IsnsRegistryProofs, as a query reads what the
handlers leave):

* The lemma `QueriesChangeNothing` carries the invariants above over to
  `QuerySpec`, whose actions are those of IsnsRegistry and queries; the lemma
  `QueryTypeCorrect` says that a search always ends at an object of its table,
  as a finite set of keys has a lowest and a highest.
* **FellowsShownAlways** follows from `NodesKnowDDs`: each of two registered
  fellows has the DD in its list, whatever the order of the registrations was.
  That list decides which nodes an ordinary source is shown, and which DDs the
  control node is told of when it asks by the name of a node; any other source
  is refused the second question (`Check_Authorization`, `iSNSreg.c:3746`).
* **ShownWithEntityAlways** needs the converse of `ListedNodes`, that the entity
  which a node names is stored and lists the node (`NodesHomed`). This holds only
  if no request makes an entity an iFCP one (an entity of that type lists no
  iSCSI node): the theorem has that as a hypothesis, and the run's requests are
  of the iSCSI type too.
* **TableWalkAlways**: the inductive `TableOwed` says that what is owed to a walk
  is shown to its source and has a greater key than the walk has reached. A step
  answers the lowest of the shown keys above, and so passes none that is owed.
* **ListWalkAlways**: `ListOwed` says that what is owed stands in the list behind
  the element the walk has reached, if that is in the list. It is kept because
  every request keeps the order of what stays in a list (`RequestKept`, with one
  lemma for each handler): it appends, takes one element out, or starts anew.
  Both rest on lists without duplicates, hence on `SoundAlways` and
  `LinkedAlways`.

Notifications (IsnsScnProofs), for any numbers of nodes, DDs, clients and
descriptors, and any registrations of DDs:

* **ScnTypeCorrect**: the list of DDs of a node is always an order of its set of
  DDs, each once (`Relist`: what stays keeps its place, what is new follows in
  the order of the ids). Sequences are built by rank: the rank of a number in a
  finite set is an injection into `1..n`, hence onto (`Ranks`, `AscendingIs`).
* **ToldRightlyAlways**: notifications respect the Discovery Domains. Whatever is
  sent goes to a registered node that has asked for the event, to the client
  that now has the descriptor it asked on, and is about another registered node
  that has an active DD which lists the receiver. The walk gives the DD
  (`ReceiversIn`); the rest is that a handler that notifies several times may
  drop a subscription in between, but never the one it tells (`Sending`).
* **NewNodeAnnouncedAlways**: the converse for a new node; it rests on that only
  a registration adds a node, that a new node is given exactly the DDs that list
  it or, if none does, the default DD, and that the walk over them meets every
  member if none is missing (`ReceiversAll`).

The inductive invariant is `ScnInv`: types, lists that hold DDs only, and the
`Shape` of the tables (a record; nodes under stored entities; an entity lists
only nodes registered under it). It has less than IsnsRegistryProofs has of the
tables, because a notification looks at no index and at no name of a DD; each
handler has one lemma on what it does to the nodes (`SameNodes` for those that
leave them alone).

The other components:

* **PortalsTypeCorrect, PortalsOwnedAlways, AskedAlways, RemovedOnlySilent**
  (IsnsPortalsProofs): every portal is listed by the stored entity it belongs to
  and its index leads to it; a portal to be asked has a descriptor; the inquiries
  remove a portal only after `esi_sent_limit - 1` of the shortest intervals.
  To `PortalsOwned` the invariant adds that the indexes in use have been given
  out (`Numbered`) and what makes a portal one to be asked (`Askable`); `Paced`
  relates the count of inquiries and the age of the last one to the ghost
  `quiet`, the time since the portal was stored or answered.
* **ServerTypeCorrect, RequestsServedByPrimary, ReadyStays**
  (IsnsServerProofs): a request is taken up only by a primary server although
  `sns_ready` is set before `isns_role`. The invariant `ReadyInv` says that a
  message of a client is on the IPC socket or at main only once `sns_ready` is
  set, that `sns_ready` is set only in the state PRIMARY or inside `SNSProcFSM`
  on the way to it from ELECTION (where main takes no datagram), and that the
  role is primary exactly in the state PRIMARY. `ReadyStays` is what allows
  the model to test `sns_ready` and forward in one step.
* **StreamTypeCorrect, IntactAlways, SerialNeverAstrayAlways,
  ClosedRightlyAlways** (IsnsStreamProofs), for messages of any sizes, cut
  anywhere, and a buffer of any size: the invariant places the buffer in the stream.
  `Buffered` says that the bytes between its start and its end are those behind
  the last message forwarded; `Unfinished` that they are no whole message while
  the thread polls; `Serial` that a client that waits for each message to be
  forwarded never has more than one in the buffer, so that the move to the front
  does not overlap.
* **ClientTypeCorrect, OwnAnswerAlways, InquiryEchoedAlways**
  (IsnsClientProofs): `Safe` holds whatever the threads do, and has that the
  response to an inquiry is built from what the receiving thread has read;
  `Paired` holds as long as they have not met in the buffer or the ring: a
  request, its answer and its entry in the ring are in one place, with the
  number of the command that waits.
* **StoreTypeCorrect, StoreImplementsTable, CopiesAgreeAlways,
  AcknowledgedAlways** (IsnsStoreProofs): the store is an `IsnsTable` for any
  failures and crashes (`pending` is the call while it runs, `applied` whether
  it is one that adds; a step that begins a call maps to `Invoke`, one that
  ends it to `Return`, every other but a crash to a stutter). The invariant
  `Orderly` says what requests a call of each kind has left; `Underway` what
  the two copies of its object look like while it runs: the directory has
  what memory had before, or the change already, with its answer lost. `Coherent`
  joins it with agreement for all other objects that are not in doubt.
* **ListsTypeCorrect, LinkedAlways, ListsAreSequences** (IsnsListsProofs): the
  pointers form two queues, and for the handlers these are the sequence and the
  sorted set of `IsnsChain`. A queue is defined by following pointers from its
  head (`Path`); the invariant turns this round and says of a sequence of cells
  that the pointers lead along it and back (`Queue`). Such a sequence is the only
  one (`AlongIs`: it has no more elements than there are cells, and the path
  meets its k-th at the k-th step), so an operation is understood as what it does
  to the sequence: `DTQ_AddBefore` puts a cell at a place (`Put`), `DTQ_Del` cuts
  one out (`Cut`), and the other queue is as before. To this come that allocated
  cells hold data, that the keys ascend (`Sorted`), and where a walk stands
  (`Walking`): a drain has stored the cell *behind* the one it has copied, which is
  why the removal of the copied element, the first that has its data, does not
  take it away. For the refinement `Remaining` says what the walk has yet to take:
  the rest of the sequence from that cell on, which is the same after a cut
  before it (`RestCut`).

The library's induction theorems cannot be used with this prover;
where a proof needs induction over numbers, or a least element, it takes it from the
well-founded order of the subsets of a finite set (`Least`, `Extreme`).

Every invariant and every action property that a run checks is proved. Only
model-checked: liveness (`BecomesPrimary`, `HeldReleased`, `HeartbeatsGoOn`,
`SilentPortalRemoved`, `EachSettled`, `Answered`), which is out of reach for this
prover, as is ENABLED. No module declares a RECURSIVE operator, so all can be
proved about.

## 7. Disagreements found

Two are runs that TLC ends with a counterexample; quotations and lines are
under `findings`.

* members_told: a member of a DD that is not registered ends the notification;
  the members after it, and those of later DDs, are told nothing.
* portal_scope: the list of DDs that a portal is compared with still holds
  those of the objects looked at before, so a portal is shown out of scope.

The others are followed by the models, each where it happens, and have no run
because one or two requests are enough to show them:

* a DD created with a member given by index and then refused for its name
  leaves a reference count too high (`iSNSreg.c:1546`; harmless to `Indexed`);
* a member given by index is cut to eight characters (`Truncated`, `iSNSreg.c:1530`),
  and the attributes after it are cleared, so that a name after it is lost
  (`NameRead`, `iSNSreg.c:1528`);
  the status of a member is set in a copy and lost (`iSNSreg.c:3203`,
  `iSNSdereg.c:1564`); two sets can get one name (`DDSSymTaken`,
  `iSNSreg.c:2911`); a refused node registration leaves an unused index
  (`RegisterNode`, `iSNSreg.c:2482`);
* a change of a set's status ends its walk early and leaves DDs active
  (`Walks`, `iSNSreg.c:1163`);
* a portal replaced by key is removed and then refused (`iSNSreg.c:397`); a
  refused registration leaves its index (`iSNSreg.c:414`); a moved portal goes
  with the entity it has left;
* a DD that is gone but still in a node's list hides the DDs after it
  (`iSNSquery.c:3119`); GetNext walks over DDs and sets ask for no permission,
  although an attribute query for a DD is for the control node alone;
* a removal is never notified to the node's fellows (`iSNSdereg.c:1014`, after
  the lists are cut);
* a reply goes to the client that has inherited the descriptor
  (`iSNScomm.c:417`); the acceptor may bind before the port option is taken
  over (`iSNSMain.c:147`); with traffic at every tick the loop tail takes the
  timer's flag first and no entity is expired (`iSNSMain.c:216`);
* a restarted server starts empty, whatever the directory has (`iSNSdb.c:268`);
* in the client, the response to a notification overwrites the command being
  built (`isns.c:861`), the ring shows an entry before its message is
  copied (`comm.c:236`), and a command that the server loses is waited for without
  a limit (`comm.c:282`).

## 8. Not modelled

* **Parsing**, byte order, the attributes an answer carries: data.
* **Queue of forwarded requests**: it is filled only by a server that is not
  the primary, and no request gets that far (`ServedByPrimary`). With it go the
  request timer, which only wakes up, and the messages to other servers.
* **Older store, UDP receiver, Windows port**: replaced, never started, not
  built. In the client, UDP and `SendESIRsp`, which nothing calls.
* **iFCP and Fibre Channel nodes**: `SNSdbAddAttrPort` reads `port_name` of a
  new port and never assigns it (`iSNSreg.c:2061-2330`), so every port is stored
  under the zero name, and the other handlers cannot be reached with a name that
  was registered. One registration shows it. Fibre Channel nodes only list such ports.
* **Portal groups** (`iSNSreg.c:672-925`): written by registration, read by
  queries, removed with nothing and compared with nothing.
* **Exercises and headers**: programs that the server does not use, and the
  headers of OpenLDAP and of the standard library.

Of modelled components: who sends a request that changes DDs or sets (the code
refuses all but the control node, `iSNSreg.c:965`, `1279`, `iSNSdereg.c:374`,
`437`, and a refused request changes nothing; so does a GetNext from an index that has
been freed); portal members of a DD; an update that names a
node only in the message key (it reads an array at -1); a new portal for which
nothing names an entity (it follows a null pointer, `iSNSreg.c:428`); an iterator
that is read uninitialised (`iSNSdb.c:197`); running out of memory; the counters
from which new ids are taken (the id of a new DD is any free one); a directory
that accepts a request and never answers, which stops main; the partial sends
of replies; what a freed cell holds (IsnsLists counts it as zeroed, the code zeroes the cells of
lists only, and nothing reads either); in IsnsLists the wrap of the 64-bit version after 2^32 changes
(its step is 2^32); in the client the menu and what it prints, and how it cuts
the stream, which looks at the buffer's begin only (`comm.c:797`).

## 9. Plan

Done: sections 3 to 6. Next, in this order:

1. A composition of IsnsServer and IsnsRegistry, with requests served in the
   order of the IPC socket.

## 10. Running it

```
tlc -workers 2 -config MCMembership.cfg MCRegistry
tlc -workers 2 -config MCServer.cfg MCServer
tlc -workers 2 -config MCStream.cfg IsnsStream
tlapm IsnsStoreProofs.tla
```
