# Verification of dshn

dshn puts a dsh instance that runs on somebody's machine onto the public
internet.  An *agent*, a plugin inside the dsh process, dials out to a *relay*
over one WebSocket; the relay gives every claimed name a subdomain and forwards
what visitors send there, one stream id per request or browser socket.

This directory models the parts of relay and agent that keep state while other
things happen: the tunnel itself, the claims, the agents' admission, browser
sessions, the rate gates, the premium route, the agent's control socket, its
session cookie with dsh, and a page of the browser with its end-to-end gate.  TLC
checks each module on small instances; TLAPS proves theorems for every size about
all of them.

Everything is translated from the source under `src/packages`.  Both programs
run on Node, one handler at a time: a handler (or what runs of it between two
`await`s) is one action, and concurrency is what happens between handlers, on
the wire, and behind awaits.

## 1. Inventory

### Relay (`packages/relay/src`)

| Component | State | Operations | Hard behaviour | What makes it correct |
|---|---|---|---|---|
| Streams of a tunnel (`server.ts`: `AgentConnection`, `onRequest`, `bridgeSocket`, `dispatchAgentFrame`, `sweep`, `cleanup`) | per connection: id allocator, responses, activity, browser sockets; each public response | open a stream, relay body and answer, abort, idle timeout, fail everything on 'close' | client, agent, sweep and 'close' race for one response; connections supersede each other; ids wrap | each response ends, once; its answer is its own and whole; nothing is orphaned |
| Claim store (`claims.ts`) | claims, bans, devices, the file | `claimOrVerify` (three awaits), `verifyLogin`, `remove`, `ban`, `unban`, `touchDevice`, `persist`, `flush`, load | calls interleave at hashes; a crash between memory and disk | one owner at a time, decided at one instant; a ban frees; the file is never behind on ownership |
| Registry (`server.ts`: `onUpgrade`, `registerAgent`, `admitAgent`, admin actions) | handshake budget per peer, sockets before HELLO, routing table name → device → connection | handshake, HELLO, deadline, admit, supersede, 'close', kick, release, ban | the table is changed by admission and by late 'close' events; the admin acts during a password check | one live agent per place, routes steady, budget exact |
| Sessions (`server.ts: handleLogin`, `auth.ts`) | signed cookies, nothing on the server | log in, verify, expire | the hash is awaited between check and signature | a revoked session stays revoked |
| Premium route (`server.ts: setPremiumRoute, dropPremiumDns, premiumSerial`, `dns.ts`) | a queue of operations per name, the claim's assignment, a DNS record | enable, disable, remove on release | each step awaits an API that may fail or answer too late | DNS and store agree, nobody else's record is touched |
| Rate gates (`server.ts`: `MinuteGate`, `loginGate`) | per key: a count of the minute; failures, the last one, a lock | admit a HELLO, let a login in, count it as failed or forgive, sweep | fixed minutes; a login is let in before its await and counted after it, with the clock of before | HELLOs and guesses are bounded, a lock holds |
| Admin dashboard, pages, static site, CLI (`admin.ts`, `auth.ts`, `index.ts`) | traffic counters, samples | display | none | — |

### Agent (`packages/agent/src`)

| Component | State | Operations | Hard behaviour | What makes it correct |
|---|---|---|---|---|
| Streams (`index.ts`: `dispatch` to `openSocket`) | tables id → parked, buffered (E2E), local request, local socket | replay, compress, park, buffer, seal, abort, drop all | local requests, their compressors and sockets outlive their table entry and the connection they belong to | no stream answers for another; sealed means sealed |
| Control socket (`index.ts`: `configure` to `onClose`) | socket, credentials, reconnect timer, premium host, fallback, probe | connect, redial, back off, probe, apply routes, deny | timers, closes, probes and the user overlap | one control socket, never stranded, ends up on the assigned route |
| dsh session cookie (`dsh-auth.ts`) | cookie, expiry, exchange in flight | refresh, stamp, invalidate, wait | late 401s, rotations, failing attempts with requests parked behind | whoever waits is released; replays are accepted again |
| E2E key (`crypto.ts`, `setE2E`) | key, salt | seal, open, change | requests in flight under another key | an answer fits its request |
| Credential store, management routes | settings | save, display | outside services | — |

### Browser

| Component | State | Operations | Hard behaviour | What makes it correct |
|---|---|---|---|---|
| A page (`agent/src/e2e-shim.ts`, the switcher of `agent/client.js`; `resolveDevice` and `handleSelect` of the relay) | the page's device, salt and key; shared by all pages: the device cookie, remembered passwords | load, pick, switch, type a password, probe with it, call | the device that serves a page and the one its calls reach are chosen separately; passwords change under open pages | a sealed call works where it was sealed for or nowhere; the user gets in |
| Widget's status and settings, the shim's WebSocket | display | — | — | — |

### Shared

`packages/protocol` defines the frames of the control WebSocket.  The relay is
the only side that allocates stream ids, from 1 on each connection.

### How they interact

* Relay and agent exchange frames over one WebSocket at a time; an older one may
  still be closing, on either side.  READY, ROUTE and DENY move the agent's
  control socket; stream frames move the tables of both sides.
* Registry, Sessions and PremiumRoute call the claim store; the first two wait
  for its hashes.
* The streams of the agent wait for the session cookie and read the E2E key of
  the moment.
* A HELLO passes the gate before there is a connection, a login before its hash.
* The page's calls carry the cookie that all pages share; the relay routes by it.
* dsh, users, DNS provider, file system and network are the environment.

`PROJECT.json` lists the hazards line by line with the properties aimed at them.

## 2. Modules

```
Wire ── RelayStreams ─┐
   └─── AgentStreams ─┴─ Tunnel ── MCTunnel, TunnelBridgeProofs ── TunnelProofs
AtomicClaims ◁ ClaimStore
                   ├─ Registry ── MCRegistry, ClaimStoreProofs
                   └─ Sessions ── MCSessions, ClaimStoreProofs
RateGates ── MCRateGates, RateGatesProofs
PremiumRoute ── MCPremiumRoute, PremiumRouteProofs
AgentControl ── MCAgentControl, AgentControlProofs
DshAuth ── MCDshAuth, DshAuthProofs
BrowserPage ── MCBrowserPage, BrowserPageProofs
```
(── is extended by, ◁ is implemented by; ClaimStoreProofs is about the store by itself,
under Sessions and under Registry)

**Wire, RelayStreams, AgentStreams, Tunnel.**  One device of one name.  `Wire`
holds the frames in flight on each connection, in order, and whether TCP still
carries them.  `RelayStreams` and `AgentStreams` have one action per event
handler and one operator per kind of frame; `Tunnel` composes them and lets the
visitors, dsh and the network act.  A frame carries a ghost `who`, the request
or browser socket its content belongs to, and `key`, the key it is sealed under:
the program never sees them, the properties do.  `responses`, `activity`,
`sockets` (relay) and `requests`, `reqE2E`, `parked`, `sockets` (agent) are the
maps of the same names; the agent's `buffered` and `lsocks` are `reqE2E` and
`sockets`.  `job` and `link` are the local requests and sockets themselves,
which keep the id they closed over.  A response may be piped through a compressor: the
request leaves `requests` when dsh's answer has been read (`LocalRead`), and what the
compressor holds comes out after that (`LocalBody`, `LocalEnd`, or `LocalSpill` when the
answer was cut short), on whatever connection is current.

**AtomicClaims, ClaimStore.**  `ClaimStore` splits `claimOrVerify` at its awaits
(`hashing`: for a new claim; `comparing`: with the record in `seen`), has one
action per other method, and a `file` that `persist` replaces by a rename.
`AtomicClaims` is what it promises: each call is decided at one instant.  The
refinement maps a call that compares to one already decided, because the record
it measures against was read before.

**Registry.**  An agent socket from its handshake to its 'close', over
`ClaimStore` (each socket makes one call of `claimOrVerify`), and the admin.
**Sessions.**  Logins over `ClaimStore`.  `Quiet` in both says that the
continuation of a settled promise runs before the next event.

**RateGates.**  `counts` and `gate` are the maps of the two gates, `now` is
`Date.now()` in ticks.  Each event counts for its client and for the peer that
clients behind one proxy share.  `Arrive` is a login up to its await, `Right`, `Wrong`
and `GiveUp` what follows it, with the reading of the clock that `try` kept.

**PremiumRoute.**  The operation queue of one name; each call of the DNS provider
is awaited in `run`, and its answer is an action.  Admission, release and the operator's
hand in the zone (`Hand`: he makes a record, deletes one, takes one over, gives one the
relay's comment or turns it elsewhere) happen in between, also between two calls of one operation.

**AgentControl.**  The control socket, with the relay reduced to what the agent
sees of it.  Sockets are slots, used again after their 'close'.  A host may be away, or
accept connections and say nothing (`mute`); a dial may be refused before it starts, with a
retry, or throw because the relay host is no URL, without one.

**DshAuth.**  The exchange that earns the cookie, the requests parked behind it,
and the answers of dsh that drop it.

**BrowserPage.**  One page and the request it has under way (the gate's probe or a
call of the application) on a name with several devices.  `chosen` is the device
cookie, `saved` the local storage; `Routed` and `Served` are `resolveDevice` for calls
and navigations; `Passes` is what a device does with a marked or sealed body.  The
browser's other pages change `chosen` and `saved` at will (`OtherPage`).

The MC modules hold model values, named sets and the symmetries, nothing else.

## 3. What is abstracted, and why it is sound

* Payloads are members of small sets; the body of a request is one with its end,
  dsh's answer is a head, one body frame and an end.  The one frame stands for all of a
  body, so an answer that is cut off has said all of it, what the compressor had taken in,
  or nothing.  Headers and the HTML pass change contents, not control.
* Heartbeat pings are not frames: what they find out is `Terminate` (a silent or
  malformed peer) at the relay and `Silent` at the agent.
* READY, ROUTE, DENY and HELLO are in `Registry` and `AgentControl`, not in
  `Tunnel`, where the handshake is one step.
* Times are order only: a timer may fire at any time after it is set.  Two
  exceptions are named in the modules.  `PromptClose` (Tunnel): a local socket told to
  close does so, and a compressor is empty, before the next connection is open; without
  it what they still say goes out under an id of the next connection (section 5).
  `FallbackEnds` (AgentControl): a fallback period, five minutes at least, outlasts a
  reconnect to a relay that answers.
* A local socket of the agent that is still connecting loses what is sent to it
  (`ws` throws, the guard of `onMessage` swallows).
* A crash inside `persist` leaves the old file or the new one: it writes aside
  and renames.
* Some ghost variables record what a property needs and no guard reads: `heard`,
  `told`, `fed` (content that reached a stranger), `wrapped`, `overtaken` (Registry:
  the claim went while it was compared), `troubled`, `posted`, `taken`, `watched`
  (PremiumRoute: a call failed, the relay stopped or the operator lent a hand; the records
  the relay made; those the operator took since the operation last looked; the queued operation whose turn is
  awaited), `readied` (AgentControl: the sockets that delivered READY), `excused` (DshAuth: the 401 that is due
  is nobody's mistake), `passed`, `burst`, `wrong` (RateGates: when HELLOs were admitted,
  when a key was locked, when wrong passwords came), `steady`, `foreign`, `astray`
  (BrowserPage: nothing of the browser or the device disturbed the page; a sealed call
  took effect elsewhere; a call of an undisturbed page strayed).
* Millisecond ties of `connectedAt` and `lastSeen` are ignored: both are ranks.
* A login takes at most `Slow`, node's limit for a request; the gate's clock does not
  run backwards.
* Keys derived from a password and a salt are pairs of both; salts are random, so a
  new one was never used.  `calm` (BrowserPage, AgentControl) is the moment from which
  the environment changes nothing any more; liveness speaks of what follows.
* The DNS provider answers each call by what its zone holds; a call may fail, having taken
  effect by then or never (one that the provider carries out after the relay gave up on it is
  not modelled).  Record ids are not used again.

Bounds (`MaxConn`, `MaxId`, `MaxQueue`, `MaxKey`, `MaxVersion`, `MaxRecord`,
`MaxEdits`, `MaxChanges`, `MaxInbox`, `MaxSecret`, `MaxNow`, `MaxHellos`, `MaxWrong`, `MaxTurns`, `Slots`, finite sets of visitors, callers, sockets,
requests) are CONSTANTS named as bounds where they are declared.  A finite world
comes to rest (every visitor served, every connection used up): that is why the
configurations do not check deadlock, but for `MCDshAuth.cfg`, which does.

## 4. Runs

Every property below fails when the definition it is about is changed the way a
slip in the code would change it; `PROJECT.json` ("mutants") names the changes.

### The tunnel

| Run | Instance | What it shows |
|---|---|---|
| `tunnel_losses` | 2 connections, 2 visitors who may leave, ids to 3, answers compressed or not, `PromptClose` | `PendingIsBridged`, `NoCrossTalk`, `StreamsAreCurrent`: over losses, reconnects and takeovers the relay's tables are exactly its pending responses, the sweep sees each, the agent's tables belong to the connection it is on, and no content reaches another stream; `CompleteIsWhole`, `EndedWorkStops` |
| `tunnel_sockets` | 2 connections, 2 browser sockets that are refused or congested, one password, `PromptClose` | `PendingIsBridged`, `NoCrossTalk` for browser sockets; `SealedWhileOn`: no event leaves in the clear over an open socket while E2E is on |
| `tunnel_ends` | FairSpec; 1 connection whose ids wrap, 1 visitor with a request or upload of any kind, the cookie fenced, one password set or not, everything that may go wrong with a stream | `EveryResponseEnds`, `NothingAfterTheEnd`, `CompleteIsWhole`, `EndedWorkStops`: through parking, buffering, sealing and refusals a response ends, once, a finished one is whole, and dsh does not work on for nobody; `SealedWhileOn`: while E2E is on no answer to a call begins, goes on or enters a compressor in the clear, and what still leaves had been taken in before; `TypeOK` |

Two connections are enough for an old and a new one, of which the old is still
closing; two visitors for a stranger's stream; ids to 3 for a stream more than
there are visitors, so that nothing wraps.  With one id (`tunnel_ends`) ids do wrap,
and `TypeOK` says that they stay in range.  `MaxQueue` bounds how far browser messages
run ahead; frames that answer something are never held back.

In `tunnel_losses` and `tunnel_sockets` the agent reconnects only after its socket
is gone (`Redials = FALSE`): with a redial next to a socket that still delivers,
`NoCrossTalk` does not hold (section 5).

Fairness (`EveryResponseEnds`): the sweep of the relay runs on an interval and
looks at every entry; a socket that was closed or lost gets its 'close' event.
Nothing is assumed of visitors, agent, dsh or network.

### Claims, sessions, admission, gates

| Run | Instance | What it shows |
|---|---|---|
| `sessions` | 1 name, 2 passwords, 2 callers, 2 devices of which 1 is kept, 1 login, writes that may fail | `RevokedForGood`: a session that stopped verifying never verifies again, whether it expired or its name was claimed anew; `BannedIsFree` and `FileIsCurrent` through every interleaving at the awaits, crashes and lost writes |
| `registry` | 3 sockets, 2 devices, 2 passwords, 1 peer with a budget of 2, writes succeed | `LiveIsRouted`, `RoutedIsNotClosed`, `AgentsOwnTheName`, `RoutesAreSteady`, `BudgetIsExact`; `ImplementsAtomicClaims`: the claims behind it all change as those of an atomic store |
| `registry_ban` | 2 sockets | `BannedHasNoAgents` fails (section 5) |
| `gates` | 2 clients behind one peer, 2 logins at once, a budget of 1 HELLO for a client and 2 for the peer, 2 and 3 failures | `AtMostTwice`, `LockHolds`, `GuessesAreBounded` |

Two callers are enough because the second look after a hash is at the shared
record, whoever made it; three sockets because a predecessor, its successor and
a late 'close' of a third can meet; three versions because a record, its
successor and one more make "the same again" possible.

In `gates` the clock runs through two minutes, and through a lockout and the end of a
window; peer and clients have different budgets, so one fills before the other; four
HELLOs are a double budget of the peer and five wrong passwords more than both budgets
with a login in flight.  The gates share nothing but the clock, so the run looks at behaviours
in which only one of them is busy (`OneGateBusy`).

`AgentsOwnTheName` leaves out the agents whose claim went while their password was
being compared (`overtaken`, section 5).  `BudgetIsExact` counts the sockets that
are not authenticated yet and the handshakes that failed: the latter keep their share
(section 5).

### Premium route, control socket, session cookie, browser

| Run | Instance | What it shows |
|---|---|---|
| `premium` | FairSpec; 2 agents, 3 operations queued, 4 records, 2 edits of the operator at any moment; calls that fail, a relay that stops | `OneRecord`, `TheirsStayTheirs`, `AgentsKnowTheRoute`, `EveryOperationRuns` always; `NothingLeftBehind` as long as nothing of that has happened |
| `control_chain` | 2 sockets at once, every mishap, silent hosts and dials that throw too, 2 actions of the user | `OneControl`, `NeverStranded` |
| `control_route` | FairSpec; outages, silent hosts, the operator, 1 action of the user | `RouteConverges`: at rest the agent is online for good, on the assigned route, or on the default relay when the premium host is down |
| `cookie` | FairSpec; 2 requests, 1 upgrade, one rotation, every mishap, 2 tries | `NeverServes401`, `EveryoneIsReleased`, `Heals` |
| `page` | FairSpec; 2 devices with the same password at first, 2 passwords of which owners set one, 2 changes | `NoForeignEffect`, `CallsComeHome`, `EventuallyUnlocked` |

Two slots for control sockets suffice because a socket that dials waits for
nothing and one abandoned socket at a time can still deliver; two failures and two
tries stand for the code's three and its `EXCHANGE_TRIES`: below, at and past the
limit all occur.  With four records one can be deleted and made anew while another
is the operator's, and with two edits he can act before an operation and within it.  Two
actions of the user are new credentials on top of others, or a `disconnect` and a `configure`.  A premium relay may be one that knows routes or one that does not
(`aware`, chosen at the start).  Two devices with one password are the worst case for a
sealed call that strays, and two changes are a password turned off and set again.

Fairness.  *Premium*: `CF_TIMEOUT_MS` ends every call and the queue goes on in the
same turn.  *Control*: timers fire, sockets open or fail unless their host is silent, frames
arrive, the relay answers a HELLO; `RouteConverges` speaks of a world that has come to rest
(`calm`: nobody acts, the default relay answers and no host is silent) with the right password.  *Cookie*: an
attempt ends by an answer or `EXCHANGE_TIMEOUT_MS`; dsh answers or its connection
fails.  *Page*: probes are sent and calls answered, a picker is used (weak); a page that
does not work is reloaded and the right password is typed again and again, if other
things keep coming between (strong: it is what users do, not what the code does).  Only
`EventuallyUnlocked` needs it: that nothing the page remembers stands in their way.

`NeverServes401` excuses refusals after a rotation of dsh's secret, an outage, a
failed attempt, or before the cookie service is there, and of a cookie that `stamp`
cannot renew: one whose expiry it could not read (`expiresAt !== 0`), or one that saw no
request on its last day (`excused`).  What is left is that a dsh in use renews a cookie
it can read in time.  That the excused refusals heal is `Heals`.

## 5. Where code and comments part

`registry_ban` is a counterexample: `claimOrVerify` does not look again after
comparing a password (`claims.ts:248`), so a HELLO under way when the admin bans
its name is admitted, although `SELF-HOSTING.md` says a ban kicks and blocks.

The models show more of this kind.  The properties above are stated so that they
hold next to it, by a bound or an exception named here; each sentence names the
line that decides.

* *Late frames* (`agent/src/index.ts:880`).  A control socket that was abandoned by
  a redial delivers until it closes, into the tables of its successor, whose ids
  start from 1 again.  `Redials` turns it on; `NoCrossTalk` is checked without it.
  In the same way a late DENY forgets credentials entered since (`:1017`).
* *Late events* (`:1382`).  A local socket told to close goes on delivering: under an
  id of the next connection, or in the clear although E2E was just turned on.
  `PromptClose` excludes the first; `SealedWhileOn` speaks of sockets nobody closed.
* *Compressed tails* (`:1252-1276`).  req 'close' takes a request out of the table when dsh's
  answer has been read, while the compressor still sends; and destroying a request ends no
  compressor.  So what it holds leaves after `setE2E` dropped the streams, in the clear,
  although "streams in flight [...] Fail them" (`:540-544`), and after a loss under an id of
  the next connection.  `PromptClose` excludes the second; `SealedWhileOn` says that the first
  is all there is: what went in before `setE2E`.
* *Sealed requests* (`:1303`).  The request `finishE2ERequest` makes to dsh is in no
  table.  `dropStreams` cannot stop it; its answer goes out on the connection of the
  moment, sealed under the key of the moment (`:1310`), and with E2E turned off in
  between `e2eSeal` gets no key and throws outside every guard (`crashed`).
  `tunnel_ends`, which seals, has one connection; `EndedWorkStops` speaks of unsealed requests.
* *Cut responses* (`server.ts:1358`, `:432`).  A response that broke off after its head
  is ended like a finished one.  `CompleteIsWhole` speaks of responses ended by
  `res_end`.
* *Id wrap* (`server.ts:222`).  After a wrap `allocId` does not look whether an id is in
  use; one long-lived stream is enough for a collision.  `PendingIsBridged` speaks of
  connections that have not wrapped.
* *Admission on a record that is gone* (`claims.ts:248`).  What `registry_ban` shows for a
  ban holds for a release: the agent joins the devices of whoever claims the name
  next.  `AgentsOwnTheName` says that there is no other way.
* *Login on a record that is gone* (`server.ts:577`).  `sessionVersionOf` is read after
  the await, so a login measured against a released claim is signed for the next.
* *Handshake budget* (`server.ts:1129`).  It is charged before `handleUpgrade`; a
  handshake that fails there never gives it back, although the comment on `registerAgent`
  (`:1154-1155`) wants a share released exactly once.  `BudgetIsExact` counts those
  handshakes as such and nothing else.
* *Queued removal* (`server.ts:898`).  A release queues the removal of its record; if
  the name is claimed and enabled anew before it runs, and its id is forgotten, the
  sweep by name removes the new record.
* *Between look and write* (`dns.ts:100-117`, `:127-133`).  `point` and `unpoint` find or read
  a record and then change or delete it by its id, in another call.  What the operator takes
  over in between is overwritten or deleted, although the header (`:5-8`) says that the relay only
  ever touches records it created; and a record of his that he gives the relay's comment is
  the relay's from then on.  `TheirsStayTheirs` speaks of what was his when the operation looked.
* *Unheard answers* (`server.ts:857`).  A provider call whose answer is lost has changed
  the zone, although enabling failed.
* *Relay host that is no URL* (`agent/src/index.ts:860`).  `connect` clears the timer and gives
  up the old socket before `new WebSocket`, which throws for an authority it cannot parse
  (`probeHost` guards against that, `:767-772`): `configure` throws instead of returning an error,
  and the agent is left with credentials and neither timer nor socket until it is configured
  again.  `NeverStranded` speaks of hosts that are URLs.
* *Silent premium host* (`:832`, `:860`).  The control dial has no `handshakeTimeout` (the probe
  has) and the heartbeat starts with 'open'.  A premium host that accepts the connection and
  stays silent after its probe succeeded, or that a restart dials unprobed, holds the agent in
  CONNECTING, although `applyRoute` (`:691-701`) means such a host not to break the tunnel.
  `RouteConverges` speaks of a rest without such a host.
* *Uncounted dials* (`:928`).  The first premium dial after a redial is
  not counted when it fails, because `status.connected` still speaks of the old socket;
  `RouteConverges` holds all the same, one dial later.
* *Rate of HELLOs* (`server.ts:282`).  `MinuteGate` calls itself a sliding counter but
  counts in fixed minutes: up to `2 * max - 1` HELLOs pass within one.  `AtMostTwice`
  says that it is never more.
* *Guesses in flight* (`:549`).  The login gate is read before the await and counted after
  it: every login under way when the budget runs out is one guess more, and a failure
  counted late, with the clock of its arrival, ends the lock up to that much earlier.
  `GuessesAreBounded` and `LockHolds` carry both terms.
* *Written to the wrong entry* (`e2e-shim.ts:203`).  The entry of the old storage, which
  names no device, is probed against whatever device comes first and removed
  when that one refuses it.
* *Anything but a 400* (`:219`).  A login page, a 428, a 502 of the relay are taken for the
  right password, which is then remembered, and a network error for a wrong one, which
  drops a good remembered password.  `EventuallyUnlocked` holds all the same: the next
  load asks again.
* *Another page's choice* (`server.ts:617`).  Selecting a device in one page redirects the
  calls of all others, also those whose shell another device served.  What is sealed
  cannot be opened there (`NoForeignEffect`); a marked call without a body can, and runs.
* *Old salt* (`agent/src/index.ts:1292`).  After a change of the password an open gate
  refuses the right one, because it derives from the salt of its page, until it is reloaded.
* *Close before messages* (`e2e-shim.ts:98`).  The shim's WebSocket emits 'close' at once and
  messages after their decryption.  Not modelled.
* *Quiet last day, unreadable expiry* (`dsh-auth.ts:153`).  Renewal is driven by requests: the
  first one after the cookie expired is stamped with it and refused.  A cookie whose expiry
  `expiryOf` cannot read is never renewed ahead of it, so even a dsh in use refuses it once.
  `NeverServes401` leaves both out; `Heals` covers what follows.

## 6. Proofs

Eight modules hold theorems, each about the specification its runs check, for any
value of the constants.  They assume the module's named assumption on its constants
(`ClaimStoreAssumption`, `RegistryAssumption`, `GatesAssumption`, `PremiumAssumption`,
`ControlAssumption`, `AuthAssumption`, `PageAssumption`, and for the tunnel
`WireAssumption`, `UploadsAssumption`, `KindsAssumption`, `RedialsAssumption`: bounds are
natural numbers, `None` and its like are no members, callers, requests and devices are
finite where they are counted, there is a kind of request) and nothing else, except where
a further hypothesis is named below.  Each has the form *the invariant holds at first,
every action keeps it, it implies the property*, with a lemma per action; the type
invariant of the module is part of it.

**TunnelBridgeProofs** (`Spec` of Tunnel: any number of connections, ids, visitors, browser
sockets and keys, any queue lengths, every mishap).

* `TunnelTypeOK`: `TypeOK`.
* `NothingIsOrphaned`: `PendingIsBridged`, with redials, sealed requests and ids that wrap on
  other connections.  A response's handlers close over a connection and an id.  The invariant
  (`RelayInv`) says that what is pending is in the table it closed over (`Present`), what is in
  a table is pending there and nowhere else (`Entered`, `Apart`), a connection that is routed
  is open (`RoutedIsLive`) and ids it has not given out are in no table (`Fresh`).
* `EndedResponsesStayEnded`: `NothingAfterTheEnd`, an action property that needs `RelayInv`: a
  response is written to through a table, and the table holds pending ones.

**TunnelProofs** (the same, on the invariants of TunnelBridgeProofs).

* `TablesAreCurrent`: for `Redials = FALSE`, `~wrapped => StreamsAreCurrent`.  That the agent's
  tables are empty while it is offline (`EmptyOffline`) and hold streams of its connection only
  (`OneTable`) depends on what is on the wire: an opening frame under way is the only one of its
  id (`OnceEach`), for a stream nobody opened yet (`Unopened`), that the relay allocated on that
  connection (`DownPlaced`, `Entitled`); and only the agent's own connection still carries
  frames to it (`Sole`).
* `StreamsNeverMix`: for `Redials = FALSE`, `NothingSealed` and `PromptClose`,
  `~wrapped => NoCrossTalk`.  Every frame to the relay says what was said for the stream that
  has its id (`UpPlaced`); every local request and socket knows the id of its own stream on the
  agent's connection, or answers on none (`JobsHeld`, `LinksHeld`), and so does a compressor
  that still holds something (`TailsHeld`), although no table knows it.
* `EndedWorkIsCalledOff`: under the same hypotheses, `~wrapped => EndedWorkStops`.  Whatever
  ends a response the agent still works for leaves an abort behind every frame that opens it
  (`CalledOff`, `Ahead`); what the agent says last of a stream is said when its work for it is
  over (`Settled`), and a stream is worked for in one place at a time (`WorkIsOne`), a
  compressor being all that is left of its request (`TailsIdle`).
* `NothingLeaksWhileOn`: with `Redials = FALSE` and `PromptClose`, sealed requests allowed,
  `[]~wrapped => SealedWhileOn`.  What dsh still answers in the clear is in the tables, the
  local requests under their own ids (`PlainWork`) and the open local sockets
  (`PlainLinks`, `LinksHeld`), so that `setE2E` destroys or closes all of it; a sealed request
  says nothing before its whole answer is in (`WholeAnswers`).  What compressors hold outlives
  `setE2E`; no step while the key is set adds to it (`Begun`: an answer enters a compressor
  only from dsh, where none in the clear is left).
* `CompleteAnswersAreWhole`: under the hypotheses of `StreamsNeverMix`, `~wrapped =>
  CompleteIsWhole`.  What a pending response carries is a beginning of its answer
  (`Carried`); the frames in flight to the relay for it continue that, part by part, each
  once, up to what the agent has said of it so far (`Continues`: `Tells`, `SaidSoFar`), which
  follows from where the agent's work for it stands, at dsh or in a compressor, as long as the
  agent speaks on the connection of the visitor (`Heard`).  It needs `UpPlaced` and `JobsHeld`: a
  frame of another stream under the same id would go on with the wrong answer.  A response
  that ended as complete has been told all three parts.

The hypotheses are the cases of section 5, not conveniences.  With redials an abandoned socket
delivers into the tables of its successor; a sealed request out to dsh is in no table and
answers on the connection of the moment (`NothingSealed`: no API calls, or no key); a local
socket told to close and a compressor speak on the next connection unless they are done by then
(`PromptClose`).  `tunnel_losses` and `tunnel_sockets` are instances that
meet them, and TLC finds the counterexamples when one is dropped.  After a wrap ids collide
(`~wrapped`).  `parked` is replayed in the order of ids, a recursion: what the proofs need of it
holds for the first id or fails at a least one (`LeastOf`), so that no induction is used.

**ClaimStoreProofs** (`StoreSpec`, and `SessionsSpec` of Sessions).

* `TypeCorrect`: `StoreTypeOK`.
* `AlwaysSound`, `BannedStaysFree`: no name is banned and claimed, in memory or
  in the file.  `BannedIsFree` is not inductive: a restart loads the file, so
  the file must be sound too, and only claimed names may have devices in either
  (`Sound`).
* `FileStaysCurrent`: unless a write failed, the file holds every ownership change.

For writes that succeed (`MayFail = FALSE`) the inductive invariant is

    StoreInv == StoreTypeOK /\ Sound /\ FileIsCurrent /\ ~behind

`FileIsCurrent` is in it because a restart replaces memory by the file, and is a
step of the atomic store only when nothing but bookkeeping is lost.  With it:

* `FirstClaimAlwaysWins`: `FirstClaimWins`.
* `StoreIsAtomic`: `ImplementsAtomicClaims`.  A lemma per action says which atomic
  step it is: a call that finds a record or a ban is decided at once, a hash for
  a new claim decides when it is in, a comparison adds nothing.

With writes that may fail these two do not hold: a released claim may come back
after a crash.

Of Sessions, with writes that may fail:

* `SessionsAreTyped`; `RevokedSessionsStayDead`: `RevokedForGood`.  No claim, in memory or
  in the file, and no cookie carries a version that is still to come (`Dated`), so a new
  claim revives nothing; a restart finds the claims it left, unless a write failed
  (`FileIsCurrent`).

Of Registry (`Spec`), with writes that may fail:

* `RegistryTypeOK`, `LiveAgentsAreRouted`, `TableNamesTheLiving`.  The two are
  inductive together once it is known how stage, socket, call and HELLO of a connection
  belong together (`Shaped`): who is admitted has said HELLO, who is open is not closed.
* `BudgetStaysExact`.  The invariant counts what the code counts: the sockets whose share was
  not `released` (`Charges`); `Shaped` makes them those the property names.
* `OwnersOnly`: `AgentsOwnTheName`.  What a check in progress has found still holds
  when it ends, unless it was overtaken (`Founded`).
* `RoutesStaySteady`: `RoutesAreSteady`.  Admissions are ranked without ties or gaps at the
  top (`Ranks`), so a newcomer is younger than whoever serves, and the oldest of a row is the
  only one the choice in `Resolve` can make; it exists because ranks are natural numbers.
* `AdmissionIsAtomic`: for `MayFail = FALSE`, the whole admission implements
  `AtomicClaims`.  It uses the lemmas of `StoreIsAtomic`; `Safe` (no name is banned and
  claimed, the file is sound and current) holds of the store under the registry.

**RateGatesProofs.**

* `GatesTypeOK`.
* `HelloRate`: `AtMostTwice`.  Admitted HELLOs fall into counts of at most a budget
  each (`Grouped`), counts begin a minute apart (`Apart`), and the entry is the last of
  them or was dropped when its minute was over (`Latest`).  Of two HELLOs a double budget
  apart a whole count lies between.
* `LockoutHolds`: `LockHolds`.  While the lock must hold, the last failure has
  set it (`LockOK`); a failure counted late is at most `Slow` old (`TryOK`).
* `GuessRate`: `GuessesAreBounded`.  The wrong passwords since a recent one are all counted,
  and once they are as many as the maximum the key is locked, so that only requests under way
  add to them: their number, and that of the requests still under way, make up the bound
  (`Tallied`).

**PremiumRouteProofs.**

* `PremiumTypeOK`, `AgentsAreTold` (`AgentsKnowTheRoute`).
* `NeverTwoRecords`: `OneRecord`.  A record is made only after the relay saw none of its own, by
  the one operation that runs, and nobody else posts one (`Aimed`, `Single`); ids not given
  out hold nothing (`Unmade`).
* `StrangersAreSafe`: `TheirsStayTheirs`.  What the running operation is about to change or
  delete carried the relay's comment when it looked, or was taken over since (`Aimed`).
* `NothingIsLeft`: `NothingLeftBehind`.  Without trouble every record is as the relay made it
  (`Clean`), there is one at most, the operation that runs knows whether it is there (`Looked`), and
  a record that no assignment stands for has its removal queued (`Accounted`).

**AgentControlProofs.**

* `ControlTypeOK`; `OnlyOneControl`, with `control` naming a socket that can still
  close (`Controlled`); `SomethingWillDial` (`NeverStranded`), which rests on it: every handler
  that gives up the socket sets the timer or dials, and a dial that throws needs a host that is
  no URL, while new credentials clear what an earlier one left.

**DshAuthProofs.**

* `AuthTypeOK`; `NobodyIsForgotten`: who waits has an exchange under way, which is
  why `EveryoneIsReleased` needs no more than that exchanges end.
* `NoStaleReplay`: `NeverServes401`.  As long as nothing excuses a 401, the cookie kept,
  the one under way and those of the requests that are out are good (`Trusted`).  Stamping
  renews a cookie near its expiry that the agent can read; the others are excused when they age.

**BrowserPageProofs.**

* `PageTypeOK`.
* `SealedForOne`: `NoForeignEffect`.  Salts are used once, so the salt of a page names
  its device and the setting of the password (`Salted`), and its keys carry it (`Keyed`).
* `PagesAreServedOn`: `CallsComeHome`.  Connected devices stand in one line (`Lined`);
  a steady page that chose nothing has the first of them (`Settled`).

`FirstClaimWins`, `NobodyWaitsForNothing` and the type invariants of all modules but
Tunnel are proved and not checked by a run.  `Sound`, `FileIsSound` and
the strengthenings are stated in the proof modules.

Only model-checked: what `NoCrossTalk`, `EndedWorkStops` and `CompleteIsWhole` say of
instances with sealed requests, redials or local sockets that close late; and all liveness,
since temporal reasoning under fairness is beyond the prover.

## 7. Not modelled

* Admin pages, traffic counters and samples, the agent's status and management
  routes: they display, or call what is modelled.
* The agent's saved credentials: the settings service is outside the repository.
* The shim's WebSocket, its refusal of XMLHttpRequest and beacons, the widget's settings.
* Path, label and close-code rules, frame encoding, what compression does to the bytes, HELLO field
  sanitising: functions of one value, without state.
* Static site, command line, packaging and deployment.

`PROJECT.json` gives a reason for each.

## 8. Plan

1. *Done*: the tunnel; the claim store with its abstract specification; registry,
   sessions, rate gates, premium route, control socket, session cookie, browser page;
   proofs about all of them.
2. Proofs to add: `CompleteIsWhole` and `EndedWorkStops` with sealed requests on one
   connection, where a job's answer cannot outlive its id's connection.
3. Models to add: an abstract tunnel (each response is answered by its own request,
   or failed) that `Tunnel` implements; sealed streams across two connections; the
   shim's WebSocket; label and close-code rules as operators checked against a
   reference definition.
