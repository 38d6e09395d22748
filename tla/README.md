# Models of the Lark identity sample

TLA+ models of the program in `src/`: an agent on Bedrock AgentCore that users
reach through Lark messages (webhook) and through a web page, and whose tools
act on Lark documents with the user's own token. The models are about what the
program keeps, who may change it at the same time, and what happens when a step
is repeated, lost or cut short. Text, rendering, signatures and encodings are
abstracted to what the properties tell apart.

    tlc -workers 2 -config UserTokens.cfg MCUserTokens     # a run
    tlapm UserTokensProofs.tla                             # the proofs of a module

`PROJECT.json` lists the runs, the source lines behind each definition, the
hazards with the properties that cover them, the mutants and the theorems.

## 1. Inventory

### Parts and how they interact

    Lark ──webhook──▶ router Lambda ──async invoke──▶ router Lambda ──▶ Lark message
                          │  identity table (DynamoDB), token minting (Cognito)
                          ▼
                    agent container ──MCP──▶ Gateway ▶ interceptor ▶ tools Lambda ──▶ Lark docs
                          ▲ WebSocket                                    │ user token store
    page ──HTTPS──▶ web_api Lambda (login, session) ─────────────────────┘ (Secrets Manager)

| part | state | operations | hard behaviour |
|---|---|---|---|
| user token store (`lambda/tools/index.py`, `lambda/web_api/lark_oauth.py`) | a bundle per user in Secrets Manager; refresh tokens are single use | login exchange and store, load, refresh, persist, use | refreshes and logins of several sandboxes without a lock; loss of a rotated token; clocks |
| agent session cache (`agent/agent_core.py`) | per actor one session that pins a token and an MCP connection; `_lock` | get or build, run, stream, invalidate and retry | executor threads; work outside the lock; a failing rebuild; partial output before a retry |
| identity table (`router/identity.py`, `web_api/identity.py`) | profile, channel, reverse and session items, allowlist | resolve, register, get or create session; admin add and remove | requests of both functions interleave between single DynamoDB calls; crashes between puts |
| token minting (`router/cognito.py`, `web_api/cognito_mint.py`) | Cognito users and passwords, the salt and tokens a sandbox caches | ensure user, derive password, log in, reset | stale salts after a rotation; half-created users; races of the first mint |
| web chat client (`web-ui/app.js`) and handler (`agent/server.py`) | token, socket, composer, reply bubble; per socket one turn; one executor for all | boot, send, reconnect, socket callbacks; submit, delta, error, final | promise chains and socket events interleave; failing turns; expiring tokens; turns that outlive their socket and hold a thread |
| webhook router (`lambda/router/index.py`, `lark.py`) | credentials and tenant token cached per sandbox; nothing about events | verify, dispatch, acknowledge, decrypt, turn, reply | repeated deliveries, Lambda's retries, crashes, negative caching |
| gateway interceptor, demo tools (`lambda/interceptor`, `lambda/tools`) | a cache of downstream keys for 300 s per sandbox; the user's documents in Lark | inject key and identity; list, create, edit, delete | stale and negative entries in shared sandboxes; arguments written by the agent; a document without its content; two Lark calls in one timeout |
| HTTP contract, session routes, CDK stacks, scripts, page rendering | none of their own, or set once | | |

What makes each of them correct: the token store never uses another user's
token or a dead one, and never strands a user by its own doing; the session
cache runs each call with the caller's token, does not repeat output, forgets no
connection and lets every call end; the table never holds half a user and
settles on one session; minting is only refused where another sandbox
interfered; the page does not mix replies and gives the composer back; the
router loses no acknowledged message but by a fault; a tool does to a document
what its caller may, and does not leave one behind in silence.

### Modules

| module | models | its MC module, proofs |
|---|---|---|
| `UserTokens` | the token store; a task is one invocation, its `pc` the next remote call | `MCUserTokens`, `UserTokensProofs` |
| `UserAuthorization` | the abstract promise of the store to each user | |
| `UserTokensRefinement` | the refinement mapping from `UserTokens` | `UserTokensRefinementProofs` |
| `AgentSessions` | `_get_session`, `_build_session`, `_invalidate`, `run_chat`, `stream_chat` | `MCAgentSessions`, `AgentSessionsProofs` |
| `AgentTurn` | what a turn is to its client: one token, one retry, none after a delta | |
| `AgentSessionsRefinement` | the refinement mapping from `AgentSessions` | `MCAgentSessions`, `AgentSessionsProofs` |
| `IdentityTable` | the two `identity.py` and `manage-allowlist.sh` | `MCIdentityTable`, `IdentityTableProofs` |
| `CognitoPool` | `mint_access_token` and `mint_tokens` | `MCCognitoPool`, `CognitoPoolProofs` |
| `WebChat` | `app.js` with `handle_ws` on the other side of each socket and the executor its turns run in | `MCWebChat`, `WebChatProofs` |
| `Conversation` | what becomes of each message: given to the agent once, shown while its reply is open | |
| `WebChatRefinement` | the refinement mapping from `WebChat` | `MCWebChat`, `WebChatProofs` |
| `GatewayTools` | the interceptor and the document calls of the tools Lambda, under turns of the agent | `MCGatewayTools`, `GatewayToolsProofs` |
| `Webhook` | the router function, both kinds of invocation | `MCWebhook`, `WebhookProofs` |
| `MessageReplies` | what the router owes a message: tries, replies, the 200 to Lark | |
| `WebhookRefinement` | the refinement mapping from `Webhook` | `MCWebhook`, `WebhookProofs` |

How state and actions correspond to the code:

* A Lambda sandbox or a thread has a record with a program counter whose values
  name the next remote call (or the lock to be taken). Everything the code does
  between two of those points is one action, with all its assignments; where the
  remote call may fail there is an action, or a disjunct, for the failure path.
* External services (Lark, Secrets Manager, DynamoDB, Cognito, the Gateway,
  Lambda) appear as the code uses them. What they may do wrong is a set `Faults`
  so that a run can say which faults it assumes.
* Tokens are represented by what tells them apart: a grant number, an owner and
  an expiry, or an expiry alone. A secret that rotates is a version number.
* `Tick` advances a clock. Where the code relies on a timeout (Lambda's, or that
  of `urlopen`) `Tick` waits for the invocation to be over, and the proofs name
  the relation between timeout and margin that is needed.
* Variables or fields called *history* record what no variable of the code
  holds, to state a property; no action reads them in a guard that the code does
  not have.

## 2. What the runs check

Bounds are named constants in the guards, never a state constraint.

| run | instance | what it shows |
|---|---|---|
| `tokens` | 2 users, 2 sandboxes, 3 grants, clock to 3, all five faults | a tool acts with its caller's own, live token (`ActsAsCaller`, `ActsWithLiveToken`); a stored refresh token that is spent is about to be replaced, was lost to a fault or was given no successor by Lark (`NoStranding`); a spent one is only written back after such an answer (`WritesAreCurrent`) |
| `tokens_nofault` | 1 user, 2 sandboxes, no fault, clock to 5 | the store implements `UserAuthorization` with nothing lossy: an authorization ends by an answer of Lark's only, never by two invocations in each other's way |
| `tokens_refused` | 1 user, 2 sandboxes, no fault | **finding**: the loser of two concurrent refreshes is told "no user token on file" |
| `sessions` | one actor, two tokens, two threads, all faults, clock to 3 | `OwnToken`, `StartsLive`, `NoDuplicateOutput`, `ConnectionsOwned`, `CachedConnected`; the cache implements `AgentTurn` (`RunsTurns`); every call ends (`CallEnds`) |
| `sessions_connected` | the same without faults | **finding**: a call closes the connection another is running on |
| `identity` | 2 users, 3 requests, crashes, 2 administrative changes | `RegisteredWhole`, `AdmitsOnlyAllowed`, `SessionSettles` |
| `identity_onesession` | 1 user, 2 requests | **finding**: two first requests are served in two sessions |
| `webchat` | 2 messages, 1 executor thread, 1 delta a turn, every fault, clock to 1 | `BubbleSingleTurn`, `BusyUntilFailure`; a disabled composer is enabled again (`ComposerRecovers`); a turn the agent has taken ends on the page (`AnswerComes`); the page and the handler implement `Conversation` (`ConversationKept`) |
| `webchat_composer` | 2 messages | **finding**: the composer is enabled while the agent works, after a failed turn |
| `cognito` | 1 user, 2 router sandboxes and 1 of web_api, a rotation | `NeverRefused`, `FailsOnlyRaced` |
| `tools` | 2 users, 2 turns, 1 interceptor sandbox, 2 calls, 1 document, a key that changes once, refused, lost and unnamed answers, sharing, clock to 3 | `ActsWithinRights`, `KeyRecent`, `EveryDocumentTold`, `CreatedIsWhole` |
| `webhook` | 1 message delivered twice, 2 sandboxes, every fault, a rotation | `AckedAccounted`, `TurnPerStart`, `LiveTenantToken`; the router implements `MessageReplies` (`RepliesAsPromised`) |

Why the bounds are enough for the cases that matter. The races of this code are
between two invocations over one record: two sandboxes (threads, requests) show
them, a third request is added where a bystander can make a difference
(`identity`, `cognito`), a second user where data could cross (`tokens`,
`identity`). Three grants are a login, its refresh and one that competes with
it. Clocks reach past the expiry of the first token, so that margins are
entered and missed. Two sessions for each of two calls cover a build and a
retry for both. One rotation distinguishes an old from a new secret. The safety
results of the proved modules do not depend on these numbers (section 4).

A browser may run the page between the close frame of a socket and its `close`
event, and `onclose` of an old socket clears `state.ws` of a newer one
(`app.js:197`): TLC then finds two sockets that write to one bubble. The history
variable `late` becomes true when a close event comes after the page has moved on
to another socket or another message; `BubbleSingleTurn` and `BusyUntilFailure` are
stated of the states before that, the two liveness properties of all. Two
messages and one thread are enough for a turn that outlives its socket to stand
in the way of the next one; `WebChatProofs` covers any number of both. In `tools`
one sandbox is shared by two users' calls, the clock passes the window of a key
by more than the timeout of a read, and two calls make and then change the one
document, which may be shared with the other user in between. A session call of
the page is answered in one step. The `sessions` run has one actor; that no call runs
with another actor's token is the theorem `ActingWithOwnToken`, for any number.
Symmetry is used in runs without liveness only.

Deadlock is not checked where the instance really stops: clocks and counts reach
their bounds, and sets of users who need not come back are idle for ever. In
`tokens`, `identity` and `cognito` it is checked.

### Fairness

* `AgentSessions!FairSpec`: weak fairness of a thread that holds the lock or runs
  (its network calls return or fail), strong fairness of taking `_lock`: a
  thread that finds it free again and again gets it in the end, which is what a
  `threading.Lock` under the operating system's scheduler gives. Without it one
  actor's calls could starve another's for ever.
* `WebChat!FairSpec`: calls are answered or fail, sockets open or fail, frames
  on an open socket arrive, the handler of an open socket takes the next message
  (of one the page has lost it may, and then works on it, but need not: the
  message may never arrive), a free thread of the executor takes the next turn, a turn ends (`CallEnds` is why it may be
  assumed to), a closing socket closes. The user need not send and the network
  need not drop anything.

`UserTokens`, `IdentityTable`, `CognitoPool`, `Webhook` and `GatewayTools` have no
liveness property: each invocation is a straight sequence of calls that the
platform cuts off.

## 3. Findings

The four runs that expect a violation quote the sentence of the repository and
TLC finds the behaviour of the code that contradicts it. They are listed in
`PROJECT.json` with their lines. Other behaviour met while modelling, which no
comment denies and which the properties above are worded around:

* a refresh that Lark answers without a refresh token writes back the one it has
  just redeemed (`tools/index.py:112`): the access token works until it expires and
  every later refresh is refused, although nothing has failed. `NoStranding` and
  `WritesAreCurrent` name this outcome (`LastAnswer`), `UserAuthorization` has the
  state `"ended"` for it;
* a login that took long can overwrite a newer bundle with an older one
  (`lark_oauth.py:92`), and both still work; a refresh that Lark has answered
  without a refresh token can overwrite the bundle of a login made meanwhile,
  and its refresh token does not (`WritesAreCurrent`, `UserAuthorization!Store`);
* a failed rebuild leaves the closed session in the cache, and the next call of
  the same token is handed it (`agent_core.py:131`); `CachedConnected` says that
  nothing else leaves one there; an older token of a user replaces a newer one's
  session (`:127`);
* a connection on which `tools/list` failed is never closed (`:104`): the state
  `leaked`, which `ConnectionsOwned` leaves out;
* removing a registered user from the allowlist has no effect (`identity.py:42`);
* the page sends an expired access token on a socket that outlived it
  (`app.js:229`); the agent refuses it and the composer comes back;
* two first mints of one user: the second fails with "user exists"
  (`cognito.py:71`, `FailsOnlyRaced`); after a rotation of the salt a warm
  sandbox keeps setting passwords others cannot use (`:107`);
* a failed asynchronous dispatch is acknowledged (`router/index.py:200`), and a
  failure to read the credentials is cached for the life of the sandbox
  (`lark.py:54`): the faults `dispatch` and `read` of `Webhook`. An event that is
  delivered twice is answered twice, since no event id is kept, and so is one
  whose invocation is cut off between the reply and its return;
* after an outage of Secrets Manager a sandbox of the interceptor injects the
  empty key for 300 s although the key can be read again
  (`interceptor/index.py:73`): `KeyRecent` says how long, not that it does not;
* `create_doc` may be cut off between its two Lark calls (10 s each, in 15 s): the
  document exists and the agent was told nothing of it (`tools/index.py:160`), which
  `EveryDocumentTold` admits only where an invocation or an answer was lost; and when
  Lark's answer carries no document_id the content is skipped and the tool says
  "Created" all the same (`:214`), the one exception of `CreatedIsWhole`;
* a turn whose socket is gone runs to its end in a thread of the executor, and
  later turns wait for it (`server.py:135`); a retry of a turn repeats the tool
  calls of the first attempt (`agent_core.py:164,178`).

## 4. What is proved

The proofs hold for every value of the constants that meets the named
assumption of the module (`UserTokensAssumption`, ...), which TLC also evaluates
in each run.

* `UserTokensProofs`: `TypeCorrectness`, `ActingAsCaller`, `ActingWithLiveToken`,
  `NobodyStranded`, `WritingCurrent`. `ActsAsCaller` and the others are not
  inductive: a bundle is loaded at one step, redeemed at another and stored at a
  third. The invariant says of every task, by its program counter, what it
  holds: grants issued to its user, a bundle with an expiry no earlier than
  Lark's by more than `Timeout`, and for `rotated` that the token it has redeemed
  is spent and its successor is not and is held by nobody else, or that Lark gave
  none (`ended`).
  `2 * Timeout <= Margin` covers the lag of `expires_at` and the time between check
  and use; `Timeout < AccessTTL` a token just issued. The code has 60 s against
  15 s and 20 s.
* `UserTokensRefinementProofs`: `Refinement`, `Spec => Authorization!Spec`, step by
  step from the same invariant: each action is a `Store`, a `Redeem`, a `Lose` or a
  stutter of the abstract store; with `Faults = {}` nothing is ever lost. An
  authorization whose renewal Lark answers without a refresh token is `"renewing"`
  until the answer is written, a `Store` of `"ended"`.
* `AgentSessionsProofs`: `TypeCorrectness` (with: the lock is held exactly by
  the call that builds), `ActingWithOwnToken`, `NoRepeatedOutput`,
  `NoForgottenConnection`, `CacheStaysConnected`, `RunsStartLive` and
  `Refinement`, `Spec => Turns!Spec`. The second needs that a session keeps the
  token it was built with; the third that an attempt that is retried has not
  emitted, and that there are two attempts; the fourth that a cached session and
  one in the hands of a call that closes it are never the same; the fifth
  (`CacheInv`) that two actors never share a session, so that the session a call
  takes out and closes is nobody's any more. In the refinement taking a session is
  `Act`, the first delta `Speak`, going to invalidate `Again`, and whatever other
  calls do to the session is a stutter.
* `WebChatProofs`: `TypeCorrectness`, `OneTurnPerBubble`,
  `ComposerBusyUntilFailure`, `OneOpenSocket`. Neither property is inductive: a
  bubble stays single because the frames on a wire come turn by turn, which
  holds because a message is sent once, the handler forwards one turn at a time
  and the thread of a turn sends on that handler's socket only; and because there
  is one open socket at a time until a close event comes late. `IInv` has a part
  for the page and its chains (`PageInv`), one for the wires and threads
  (`FlowInv`), and the three statements that need both (`OneSocket`, `OneBubble`,
  `OneWaits`). `Refinement`, `Spec => ConversationKept`, holds of late close events
  too: a reply is open from its sending to its first error or final frame or to
  the loss of its socket, and is shown in no bubble after that; the agent may
  still take a message whose socket the page has lost, once, and work on it. The invariant
  `TalkInv` adds to `IInv` what the frames under way tell of the turn behind them:
  no delta follows an error on a wire, and a turn that has ended on the page while
  it is still at work has failed, so that its thread sends none.
* `GatewayToolsProofs`: `TypeCorrectness`, `ChangesAreByRight`, `RecentKeys`,
  `NoSilentDocument`, `CreatedMeansWhole`. `ActsWithinRights` needs that from the
  injection on the `_endUserId` of a call is the user of its turn's token;
  `KeyRecent` that a key held by a sandbox or a call under way was the stored one
  no longer ago than the entry's window, or than the read's timeout;
  `EveryDocumentTold` that a document is made by one call, which holds it until
  it has told its turn.
* `IdentityTableProofs`: `TypeCorrectness`, `WholeRegistration`,
  `AdmissionByAllowlist`, `SessionSettling`. The invariant ties the items in the
  table to the program counters of the requests between their puts.
* `CognitoPoolProofs`: `TypeCorrectness`, `FailingOnlyRaced`, `RefusedNever`. The
  invariant says what a mint nobody has raced may rely on (the user it will
  create does not exist, the password it has set is still there), and for
  `RefusedNever` that before the first rotation every password and every kept
  salt is the first one.
* `WebhookProofs`: `TypeCorrectness`, `OneTurnPerStart`, `AcknowledgedAccounted`,
  `LivingTenantToken` and `Refinement`, `Spec => Service!Spec`. Four invariants on
  top of one another give the first four: a running invocation is in one sandbox
  only; before its turn it has taken none since it was started; a webhook that is
  about to be acknowledged is accounted for already, since the dispatch comes
  first; and a token about to be used outlives the invocation. The last needs
  `2 * Timeout <= Margin` for a cached token, and `2 * Timeout < Life` for a fresh
  one: one `Timeout` for the lag of `expires_at`, one for the time until it is
  used. The code has 60 s against 300 s and Lark's 7200 s. In the refinement an
  asynchronous invocation is a job and a start of it a try; the tries are
  `Retries - left`, plus one once it has been started, and the job is `replied` from
  the answer to the call of Lark's API to the return of the handler. A crash in
  between opens it again: that is the second reply a user may see. A job is given
  up in a lossy world only, which needs two more invariants: without the fault
  `read` no sandbox has cached a failure (`CredsInv`), and without rotations there
  is one key (`KeyInv`), so that decryption cannot fail.

Only model-checked: all liveness (`CallEnds`, `ComposerRecovers`,
`AnswerComes`), which is outside the prover's reach, as is `ENABLED`. Every
invariant and every action property of a passing run is a theorem.

## 5. Plan

Done, in this order: the token store with its abstract specification, the
session cache, the identity table, the chat page, minting, the webhook; then the
executor under the chat page, `AgentTurn` and the refinement of the session
cache, `GatewayTools`, and the proofs of `WebChat`, `GatewayTools` and of the rest
of `AgentSessions`; then `MessageReplies` and the
refinement of the router, `Conversation` and the refinement of the chat page.

Left, by importance:

1. Reloads of the page while a turn runs, and two pages of one user.
2. The deletions of `destroy.sh` and the order of `deploy.sh`, if they prove to have
   more than AWS's own dependencies in them.

## 6. Not modelled

Infrastructure code, deployment scripts and page rendering keep no state that
the running system shares. The cryptography of webhooks and tokens is
represented by its verdict. The conversation in AgentCore Memory and the model
behind the agent belong to services the code only calls; two turns that share
one agent object may overlap, and what that does to the conversation is not
stated. `lark.download_image` and the `app_access_token` helper are called by
nothing. botocore's own retries (of `admin_create_user`, `lambda.invoke` and the
rest) and the duplicates that Lambda's asynchronous queue may deliver are not
modelled: `FailsOnlyRaced` is of mints whose calls are made once, and `TurnPerStart`
of starts, not of events. Documents the users had before, and transfers of
ownership, are not in `GatewayTools`. `PROJECT.json` gives the reason for every part.
