# ORB server and tools: a TLA+ verification project

This directory models the program of this repository: the local replacement for the
cloud of the ORB voice assistant (`server/orb_server.py`) and the tools that prepare
the device's flash (`tools/`). TLC checks the models on small instances, TLAPS proves
the central ones for every value of their parameters. `PROJECT.json` lists the runs,
the lines every definition stands for, the hazards and the theorems.

## 1. Inventory

| Part | State it keeps | Operations | What is hard about it |
|---|---|---|---|
| **HTTP/2 control channel** `class Orb`, orb_server.py:486-777 | one instance per connection: `bodies`, `paths`, `headers`, `dialog`, `endpointers` (dicts by stream), `responded` (set), `downchannel_sid`, `dev_id`, `pushed_anims`; an `H2Connection` with the state of every stream | `connection_made/lost`, `data_received` (RequestReceived, DataReceived, StreamEnded, StreamReset), `on_endpoint`, `push_directive`, `_push_anims`, `_persist`, `_forget`, `handle` | h2 applies a whole batch of frames before the first event of it is handled; early answers race with resets; sends raise; connections are recycled every few seconds |
| **Turn endpointing** `Endpointer` over `SileroVAD`, 411-468 | `buf`, `started`, `silence`, `frames`, `fired` | `feed` | chunks of any length against frames of 1024 bytes, three counters in one if/elif chain, one verdict only |
| **Side channel** `_audio_http_client`, 874-945 | none of its own; reads `PLACEHOLDER_OPUS`, `ASSET_FILE_BYTES`, writes `ASSET_SERVED` | GET/HEAD of the reply, of a `.bin`, of the zip | shares a global with `Orb` across connections |
| **Asset staging** `stage_anims.sh`; `--push-anims`, 263-385, 1044-1125 | a zip and its sidecar; `ASSET_ANIMS`, `ASSET_FILE_BYTES` | pack, build manifest, extract, `--anim-as`, shorten names | two files written in turn, read at three moments; two tables renamed in step; names collide |
| **Certificate bootstrap** `ensure_cert`, 101-148 | `cert.pem`, `key.pem` | generate, check for existence | crash between two writes |
| **Start-up, addresses, logging** `main`, `host_lan_ips`, `log` | console, sockets | – | I/O |
| **NVS editor** `nvs_parse.py`, `nvs_set.py` | pages of 126 entries, two state bits each, CRCs | parse, set | page order, spans, duplicates |
| **Image pipeline** `build_orb.py`, `reprovision.py` | the work image, temporaries | chain of subprocesses | a step fails or is skipped |
| **Firmware patchers** `patch_*.py` | an ESP32 image: code bytes, XOR checksum, SHA-256 digest | find, patch, re-seal | chained, re-applied, refused |
| **SPIFFS builder** `make_wifi_spiffs.py`, `spiffsgen.py` | pages, lookup tables, object indices | create file, build image | hard limits of pages and indices |
| **Animation codec** `orb_encode.py`, `orb_decoder.py`, `orb_lock_calibrate.py` | none | encode, decode, calibrate | index arithmetic |
| **cmd1 injection** `cmd1_stub/`, `extract_cmd1.py`, `splice_patch.py`, `find_padding.py` | – | – | abandoned (docs: placement is impossible) |
| **ORB firmware** (not in the repository) | its capture state, the "interacting" guard, its downloads | opens `/connect`, posts events, uploads speech, fetches | the environment of all of the above |

How the parts interact. The device opens a TLS connection; each one gets an `Orb`
instance of its own. It holds `/connect` open (the *downchannel*), posts events and
uploads speech on further streams. Every DATA event of a speech upload passes through
the `Endpointer`; when that fires, `on_endpoint` answers the upload with `b"finish"`
and pushes `ExpectSpeech` on the downchannel; the device then fetches the reply over
plain HTTP from the side channel. Asset directives take the same road, and the first
download sets the module global that stops further pushes. asyncio is single-threaded:
callbacks and the side channel interleave between calls of `data_received`, never
within one; the device runs all the time.

What makes each part correct:

- *control channel*: no per-stream state survives its stream; no audio the server saw
  the end of is lost; the device never rejects the reply to its own turn because it
  came before `finish`; one reply per turn; replies carry the learned id; every turn is
  closed; exceptions escape only where h2 makes it unavoidable;
- *endpointing*: the verdict is a function of the audio, not of the chunks; it is given
  once; it comes in the end;
- *side channel and asset pushes*: a directive goes only to a device that has none of the
  files and was sent none on this connection, and one gets through in the end, whatever
  connections and turns do before;
- *NVS editor*: the reader shows a map in which the latest write of a key wins, whatever
  order the pages lie in; an edit changes one entry of it;
- *asset staging*: every entry of the manifest is served, with the bytes packed for it,
  under a name the device takes; a locked loop closes and is played for its whole length;
- *certificate*: whatever pair a start finds, some start listens;
- *image pipeline and patchers*: a run that says all is well has built what was asked for,
  images stay valid, the user's dumps survive;
- *SPIFFS builder*: files read back, the image mounts, "full" is said of full images only.

## 2. Modules

| Module | Models | State ↔ code |
|---|---|---|
| `TurnDetector` | what the endpointer promises: a verdict on a sequence of Booleans, one per frame | abstract |
| `Endpointer` | `Endpointer.feed`, step by step: `Feed` is the call, `Judge` one round of its `while`, `Return` its end | `buf` (its length), `started`, `silence`, `frames`, `fired` as in the code; `audio` is what the VAD answers on each frame |
| `Orb` | one connection's instance and the h2 library as the server uses it; one action per event and outcome | `kind[s]` for `paths/headers/dialog`, `bodies`, `endpointers`, `responded`, `downchannel_sid`, `dev_id`, `pushed_anims`, `ASSET_SERVED` as in the code; `h2`, `hdrs` the library's stream states; `wire`, `batch`, `down` the connection |
| `OrbSystem` | `Orb`, the side channel and the device together; fairness; the properties | device variables `up`, `turn`, `interacting`, `fetch`, `directive` (what became of the asset directive it read: `Fate`), ... from docs/observed_protocol.md and docs/downchannel_reconnect.md |
| `NvsMap` | what a partition promises: a map from entries to values | abstract |
| `NvsStore` | `nvs_parse.parse` (`Live`), `nvs_set.main` (`NvsSet`), and the device's own writes as their environment | `page[p].bits`, `.cell`, `.state`, `.seq`: the bitmap, the entries and the header of a page in the dump |
| `Spiffs` | `spiffsgen.py` (`SpiffsFS`, `SpiffsBlock`, the pages) and `make_wifi_spiffs.py` around it | `blocks[b].pages`, `.lu`: pages and lookup of a `SpiffsBlock`; `cur`: `cur_obj_index_span_ix`, `cur_obj_data_span_ix` and where `cur_obj_idx_page` lies; `created`: `cur_obj_id` and the files behind it; `out`: the output file |
| `FlashImage` | the four patchers as operators on an app image | `code` at the patched sites, `clip` and `slot` of the table of sounds, `sum` the checksum byte, `digest` the SHA-256 |
| `BuildPipeline` | `build_orb.py`, `reprovision.py`, and patchers run by hand | `files`: what every path holds (nothing, torn, an image); `cur`, `line` are `cur` and `flash`; `stage`, `done` the place in `main` |
| `Codec` | `orb_encode.py` and `decode_file` as operators on columns | no state |
| `AssetStage` | `build_animations_manifest` and the name rewriting of `orb_server.py` as operators | `anims`, `bytes`: `ASSET_ANIMS`, `ASSET_FILE_BYTES` |
| `PushServer` | the user encoding and packing, and a start of `orb_server.py` from the pack to the open sockets | `bins`, `zip`, `sidecar`, `key`, `cert`: files; `st`: the two tables; `pc`: the place in start-up |
| `MCEndpointer`, `MCOrb`, `MCNvs`, `MCSpiffs`, `MCBuild`, `MCPush` | instances for TLC | |
| `Endpointer_proofs`, `OrbSystem_proofs`, `OrbReplies_proofs`, `OrbStreams_proofs`, `NvsStore_proofs`, `BuildPipeline_proofs`, `Spiffs_proofs`, `PushServer_proofs` | theorems | |

`OrbSystem` EXTENDS `Orb`. `NvsStore` has `NvsMap` as `INSTANCE`, its store being what
`nvs_parse.py` lists (`Store`). `Endpointer` has `TurnDetector` as `INSTANCE` (the variables
`audio`, `frames`, `verdict` map to themselves). `Orb` uses the endpointer through its
contract only: it fires at most once per stream, on some DATA event, at the latest at
the cap (`Firing`). That contract is `VerdictIsFinal`, `DetectsTurns` and `EveryTurnEnds`
of `Endpointer`.

`PushServer` EXTENDS `AssetStage`, which EXTENDS `Codec`; `BuildPipeline` EXTENDS `FlashImage`.
`BuildPipeline` uses `NvsStore` and `Spiffs` through what they promise: an edit of NVS gives one
key its value and changes no other (`SetReadsBack`; so the values of this module are strings of less
than 992 bytes, see `nvs_long`), and a WiFi image that was told to the
user is whole (`EndsInAnImage`).  What `Orb` calls the asset files is what `PushServer` has
staged when it listens.

### How actions correspond to code

`ReceiveData` is `self.conn.receive_data(data)`: a prefix of `wire` becomes the running
batch and h2 moves every stream to the state it has *after* the batch. The events of the
batch are then handled one by one, each by the action for its type:

| Event, condition | Action |
|---|---|
| RequestReceived | `RequestReceived` (learn the id, arm the endpointer, push assets) |
| DataReceived, stream in `responded` | `DataIgnored` |
| DataReceived, endpointer silent | `DataBuffered` |
| DataReceived, endpointer fires, observe mode | `EndpointObserved` |
| DataReceived, endpointer fires, reply mode | `EndpointReplied` |
| StreamEnded, stream in `responded` | `AnsweredEnded` |
| StreamEnded, event, upload or /api/audio | `StreamAnswered` |
| StreamEnded, /connect | `DownchannelOpened` |
| StreamEnded, a send raises | `AnswerRaises` |
| StreamReset | `StreamReset` |

The handlers call their helpers inside the action: `Persist`, `Forget`, `Pushed`,
`AnimsWanted`, `TurnEnd` carry the names of what they stand for. A send raises exactly
when h2 refuses it (`CanSend`, `CanRespond`) or when the peer's flow-control window is
too small (`Rooms`, chosen per handler: nothing fits, a short body fits, a directive
fits; a directive with all the files of a pack may be larger than the peer's frame size,
which h2 refuses whatever the window: `AnimsFit`). An exception that no `except` catches is `Fatal`: the rest of the batch is lost
and asyncio closes the transport.

The tools are sequential programs, so their actions are the steps between which one of
them may fail or be stopped, and the iterations of their loops:

| Code | Actions |
|---|---|
| spiffsgen.py `create_file`, the head index page | `CreateFile`, `NameTooLong`, `NoRoomForFile` |
| its `while` loop: data page, next index page, next block | `UpdateObj`, `NextIndexPage`, `NextBlock`, `NoRoomForPage`, `EndObj` |
| `SpiffsFS.__init__`, `to_binary`, the output file | `OddSize`, `OpenOutput`, `WriteImage`, `PageOverflow` |
| make_wifi_spiffs.py around it | `BadArgument`, `Told` |
| build_orb.py, APP | `AppStep`, `AppStepFails`, `AppMove`, `AppMoveFails` |
| build_orb.py and reprovision.py, NVS and WIFI | `NvsStep`, `NvsStepFails`, `NvsDone`, `Wifi`, `WifiFails` |
| their ends | `Preflight` (build_orb), `Include` (reprovision) |
| a patcher on its own | `ByHand` |
| orb_encode.py, stage_anims.sh | `Encode`; `BeginPack`, `WriteZip`, `WriteSidecar`, `StopPack` |
| orb_server.py before `main` | `StartBare`, `StartRaw`, `StartServer`, `ReadBytes`, `ReadBytesFails` |
| `ensure_cert`, `main` up to the sockets | `EnsureCert`, `NoGenerator`, `WriteKey`, `OpenCert`, `WriteCert`, `Load`, `StopServer` |

### Abstractions

A body is its number of DATA events; a request is its kind; a capture file is counted,
not named; a 503 is a final answer like a 200. The VAD is an arbitrary Boolean per
frame. The device's firmware is external and as free as the documents allow: it resets
streams when it likes, in any batch, and the connection may go at any moment.
One connection is served at a time, as the device has one.

In `NvsStore` a slot is empty, a head (entry and value) or the k-th piece of a value's data.
`Walk` goes from head to head as the loops of both tools do, and by one slot where a span
is not believed. `NvsSet` is the whole of `main`: it takes the last match in the dump,
writes a head and data into the first run of empty slots of the active page, and erases
the old entry by its span. Where the tool gives up it writes nothing: there is no
action. The firmware's writes are external and taken from nvs_set.py's description
("the same way the firmware does"), with the power going between the write and the
erasure (`PowerLoss`), and pages that fill up and are blanked again. CRCs are left out.
So is the chance that a piece of data looks like a head, which needs a span beyond 32 to
be walked onto.

In `Spiffs` a data page holds a chunk of its file, not bytes; lengths are kept, for they decide
every limit. In `FlashImage` every part of the image is an element of its own and the XOR
checksum is a symmetric difference of sets, so that the difference the three code patchers
add and the recomputation of the audio patcher can disagree; a digest is what it is a
digest of. In `BuildPipeline` a subprocess succeeds, or fails before it writes, or is cut off in the middle
of writing; an NVS image is a map, and argument checks are where the tools have them. In
`Codec` angles are counted in whole columns and a picture is its columns, drawn clockwise. In `PushServer`
a file is emptied in one step and written in the next; names are a stem, what is cut off
it, an index and a length.

## 3. Runs

| Run | Question | States |
|---|---|---|
| `orb_turn` | reply mode, two turns, re-triggers, lost connections: is the per-stream state right under every batching? | 1.3 million |
| `orb_live` | does every turn end, does a pushed reply arrive, do asset pushes stop and get through? Turns and assets on one downchannel, with resets of `/connect`, lost connections and reboots | 224 thousand |
| `orb_observe` | observe mode, all kinds of request, a window that fills | 35 thousand |
| `endpointer` | every audio of 7 frames in every chunking | 7.6 thousand |
| `nvs` | does the reader see a map, and does an edit change one entry, over every partition the device can leave? | 12 thousand |
| `spiffs` | does what spiffsgen.py lays out read back and mount, and when is it full? | 9 thousand |
| `build` | two runs of the pipeline tools over one directory, failures anywhere: are images and dumps what the user is told? | 336 thousand |
| `push` | encode, pack, start, with programs stopped anywhere: is the manifest served, and does a server come up? | 107 thousand |
| `orb_finish_first` (violation) | is `finish` always sent before `ExpectSpeech`, as the comment says? No. | |
| `orb_served` (violation) | does "served" mean all of the assets, as the document says? No. | |
| `build_register` (violation) | is `REGISTER_STR=1` automatic, as the document says? No. | |
| `nvs_long` (violation) | does `nvs_parse.py` confirm every value `nvs_set.py` writes? Not a long one. | |

What the properties say:

- `NoLeakedState`: between two calls of `data_received` every known stream is alive in h2.
- `UploadBanked`: an upload whose end or reset was handled is on disk whole; if the turn
  was cut short, the capture is exactly the utterance saved for STT.
- `ReplyAfterFinish`: `ExpectSpeech` is preceded by `finish` on the turn's stream, or the
  device had reset that stream.
- `NeverRejectsOwnReply`: the consequence for the device: it never rejects the reply to the
  turn it is capturing.
- `NoReplyMissed`: no reply is dropped for carrying the wrong target id.
- `NoEscapedException`: the connection is lost to an exception only in the two cases h2
  makes possible.
- `OneReplyPerTurn`, `TurnCompletes`, `ReplyReachesDevice`: one reply per turn, every turn
  is closed, a pushed reply is fetched, or turned down by the device, or the connection went.
- `PushesStop`: an asset directive is pushed only to a device that has none of the files and was sent none
  on this connection, read or queued. It relates what the server does to what the device
  has, so it fails if either flag is not set, is reset or is read too early.
- `AssetsDelivered`: a file is fetched in the end, if long enough connections recur (below).
- `FramesInStep`, `VerdictIsFinal`, `DetectsTurns`, `EveryTurnEnds`: conservation of bytes,
  finality, refinement of `TurnDetector`, termination.
- `BitmapAgrees`: every written slot belongs to exactly one live entry with all of its data.
- `ImplementsMap`: `NvsStore` implements `NvsMap`: no step changes two entries.
- `OldStaysGone`: only writes change what the reader finds; no power loss, erasure or recycled
  page brings an old value back.
- `SetReadsBack`: after `nvs_set.py KEY VALUE` the reader finds that value, and the rest as before.
- `ReadBack`: every file created reads back whole through lookup and indexes, however it
  lies across blocks and index pages. `Mountable`: every block carries its own magic number
  and no page's entry is lost to it. `FullOnlyWhenFull`: "the image size has been exceeded" is
  said of files that do not fit only: continuing an object costs no page.
  `EndsInAnImage`: a run ends, and one that prints the flash command left a whole image.
- `FlashIsAsAsked`: a run that ends well names files which equal what was asked for over the
  dumps it was given, worked out in one go, and nothing else in them changed. `REGISTER_STR` after a reprovisioning without
  `--register` is left out (`Contested`): there document and code disagree (`build_register`).
  `ImagesStayValid`: checksum and digest stay right through any chain of patchers.
  `PreflightOnlyForOverride`: the preflight fails only if the user's own `--set` undid
  `REGISTER_STR`. `DumpsSurvive`: no run or failure changes the dumps, but for one case (section 4).
- `ServedAsPacked`: every entry of the manifest is served with the bytes packed for it, the
  size the device checks, and a name the fan takes. `LoopsWithoutSnap`: a locked file packed
  with its duration is played for exactly its frames and closes as well as it can.
  `DecodesBack`: the decoder finds every column. `StartRecovers`: the server comes up in the
  end, whichever of the two certificate files it finds.

Every property of a passing run has a mutant in `PROJECT.json`: a definition changed the
way a plausible bug would change it (the `X_Something` operators beside the definition
`X`), under which TLC finds the property violated.

### Bounds, and why they are enough

- `MaxStreams = 3` in `orb_turn`: a downchannel and two turns. The handlers touch one stream and
  `downchannel_sid`; a third turn meets nothing the second did not. Stream numbers start over
  with each connection, and connections are unbounded.
- `MaxData = 2`: the endpointer may fire on the first DATA event, on the last, and there is
  DATA after an early verdict.
- `MaxWire = 2` or `3`: batches of one to three frames; the interesting pairs (DATA+RST,
  END+RST, req+END) fit.
- `orb_live` has two streams, of any of the three kinds: a turn beside a downchannel, a downchannel replaced by
  another on a living connection, a request for assets before or after the downchannel. One file, which is all
  `ASSET_SERVED` needs; the configured id is the device's.
- `MaxConnects = 1` in `orb_turn`, `2` in `orb_live`.
- `N = 7`, `Hang = 2`, `BailFr = 3`, `MaxFr = 6`, `FB = 2`, `MaxChunk = 5`: all three
  verdicts occur, with `Hang < BailFr < MaxFr` as in the code (22, 188, 469), and a
  chunk holds from no frame to two and a half.

- `P = 2`, `S = 5`, spans of 2 and 3, `MaxSpan = 3`, `MaxSeq = 3`: a page holds two entries
  and not three, both pages are recycled, so that the newer one may lie before the older
  one in the dump. `nvs_long` adds a value whose span is `MaxSpan + 1`.
  `CHECK_DEADLOCK FALSE` in both: a partition full of live entries, or the bound on
  sequence numbers, ends a behaviour.

- `Spiffs`: blocks of seven pages of 16 bytes, one of them lookup, head indexes of one entry
  and further ones of four, three blocks, files of 0 to 7 chunks: index ends and block ends fall apart and together, a
  file spans three blocks, the image is full at a head page, at a data page, and exactly.
  Real values (4096, 256, 32, 4) differ in nothing the layout branches on.
- `Build`: `MaxRuns = 2`, so that the second run meets what the first left: final files,
  temporaries of a failed run, torn files. A dump with a right and one with a wrong checksum.
- `Push`: `MaxUser = 3` (encode, pack, pack anew while the server reads), `MaxStops = 1` of any
  program; columns of two LEDs, eight to a turn; a step of five columns against the turn has no small
  seam within `Hi = 5`, so that the fallback of `_auto_loop_len` is taken. Names: two that are cut to one
  head, one that is what another is cut to, one base name in two folders. A pack has at most a hundred
  files (`MaxFiles`), so that the index put into a shortened name is two digits; encodings are those of
  orb_encode.py without `--lock-frames` and `--lock-sweep`, which fix a length instead of looking for one.
  `CHECK_DEADLOCK FALSE` in these three: programs end, and the bounds end the user.

No symmetry is declared: streams are numbers in order, and the liveness runs would not
allow it.

### Fairness

`FairSpec` of `OrbSystem` assumes: the server handles what it received (asyncio runs
ready callbacks); the device reads, continues and ends an upload it began, and makes a
fetch it decided on; a dead link is noticed and a new connection is made
(docs/downchannel_reconnect.md: it reconnects every 6-12 s). These are weak. Downloading
is strongly fair, since a reboot disables it again and again. Nothing obliges a user to speak, the device to
reset, or the connection to go. `AssetsDelivered` states its own condition,
`[]<>LongEnough`: again and again there is a connection with a usable downchannel that lasts until
the device has read everything sent to it, and on which no turn (`rejected`) or abandoned `/connect` (`lost`) made
it drop the directive. Without it a network that always drops in time, or a user who always
speaks when the directive comes, would be a counterexample, and is.
`FairSpec` of `Endpointer`: a call of `feed` runs to its end. `Spiffs`: one process runs until it ends
(`WF_vars(Next)`). `PushServer`: a program that was started takes its next step, and the user
starts the server again when it is down (weak fairness of `Packing`, `Server` and of starting
it with the pack); stops are bounded, and nothing obliges the user to encode or pack.
`BuildPipeline` has no liveness property and no fairness.

### Limits of the liveness properties

`ReplyReachesDevice` starts from a push that succeeded: the code does not retry a push
that failed, and the device is then left without an answer. It also excepts the case that
the device abandoned `/connect`: `downchannel_sid` keeps the dead stream's number.

`AssetsDelivered` holds under all of these, each of which is needed:

- the connections it counts are long enough as above. `pushed_anims` is set when the directive is sent, not
  when it is taken: a device in a turn drops it, and this connection gets no other; the next one does;
- the directive fits one frame (`AnimsFit`) and the window has room (`WindowFills` is FALSE); where it is refused for its size, it is refused for good;
- the id is known when `/connect` is handled (`IdKnown`): it was configured, or `/connect` carries it. With the placeholder
  configured and ids on uploads only, each connection that opens `/connect` before its first upload spends its one
  push on the placeholder (orb_server.py:650), and TLC finds a behaviour in which no file is ever fetched;
- one file: of several the first counts for all (`orb_served`).

## 4. Findings

1. **`ExpectSpeech` without `finish`** (`orb_finish_first`). If DATA on which the endpointer
   fires and the RST_STREAM of the same upload arrive in one batch, `send_headers` raises,
   the `except` at orb_server.py:616 logs, and the directive is pushed all the same. The
   comment above it promises (1) finish, THEN (2) push. The device has abandoned that
   turn; if it is in a new one, it rejects the directive; if not, it plays a reply to a
   turn its user has cancelled. `ReplyAfterFinish` holds: this is the only way.
2. **"Served" is the first file** (`orb_served`). `ASSET_SERVED` is set by the first `.bin`
   fetched; the documents speak of the whole set. The trace ends there; that a reboot or a failed download then
   leaves the device with part of the set, with no further push, is a consequence and not in it.
3. **Long strings vanish from `nvs_parse.py`** (`nvs_long`). `nvs_set.py` writes a string of any
   length; the reader skips spans beyond 32, that is strings of 992 bytes or more.
4. **`REGISTER_STR` is not automatic** (`build_register`). docs/wifi_provisioning.md:78-81 gives the command for a factory
   dump without `--register` and says "REGISTER_STR=1 is automatic"; reprovision.py:76 sets it with `--register` only, and
   the tool's own docstring has the flag in that command.

Seen while modelling, and stated in the properties as their exceptions; no document says otherwise of them, but where one is named:

- A build that patches nothing moves the user's own dump to `app_final.bin` (build_orb.py:93): the exception in
  `DumpsSurvive`. If that file was torn to begin with, the run calls it good. The flash line is
  printed even after a failed preflight, which does not look for a missing `ENDPOINT_STR`.
- END and RST of one stream in one batch, or headers whose body does not fit the window, end in an exception
  that costs the connection (orb_server.py:567, :611): the two cases `NoEscapedException` exempts.
- Assets are pushed at a placeholder id if `/connect` does not carry the device's (`IdKnown`). The start-up text (orb_server.py:985-986)
  calls the placeholder "fine", since the id is learned from "the device's upload headers"; docs/decloud_endpoint.md:201 mentions an
  `olli-session-id` header on `/connect`. If it is sent, the push is aimed; the model takes no side.
- An asset directive too large for one frame is logged as "no open downchannel yet" and never delivered (orb_server.py:666): `AnimsFit`.
- make_wifi_spiffs.py empties an older image before it finds that the new one cannot be built (spiffsgen.py:572).
- A patch run over `app_final.bin` again is refused ("Already patched"), so a build cannot be
  resumed from it. A sound's slot shrinks to its last replacement (patch_system_audio.py:95). The
  code patchers carry a wrong checksum on, the audio patcher puts it right.
- `ensure_cert` stopped between the two files, or while cert.pem is empty, leaves a pair that exists and never loads:
  the exception `cut` of `StartRecovers`.
- stage_anims.sh stopped after the zip leaves the old durations beside it; a pack replaced
  between the two times the server opens it gives sizes of one and bytes of the other; two entries of
  one base name, or a name that is what another is cut to, share their bytes or end the
  program (`Clash`); with very long character names the limit cannot be kept.
- orb_lock_calibrate.py prints loop lengths by `round(360/|d|)`, which `encode_locked` does not use; a raw
  `.bin` is always offered for 4000 ms. The comment at orb_encode.py:85-86 has the sweep go
  right, down, left; the code's goes right, up, left.
- spiffsgen.py pads a name by its characters and writes its bytes: further bytes push the
  index table back, and may overflow the page (`PageOverflow`). The one name make_wifi_spiffs.py uses has none.

## 5. Proofs

`Endpointer_proofs` (for every `N`, `Hang`, `MaxFr`, `BailFr`, `FB`, `MaxChunk` that satisfy
`EndpointerAssumption`): `TypeCorrect`, `BytesConserved` (FramesInStep), `Final`
(VerdictIsFinal) and `Refinement` (DetectsTurns). The argument: `FramesInStep` is not
inductive, since a verdict in mid-call leaves whole frames in the buffer, and nothing
bounds `frames` by the audio. The invariant `IInv` adds that each counter is what the audio
says it is: `started` iff speech was heard (`StartedIsSpoke`), `silence` the length of the
run of silent frames at the end (`SilenceIsRun`), and `fired` iff there is a verdict
(`FiredIsVerdict`). With these, the branch `Judge` takes is the case of
`TurnDetector!Verdict` that holds, so a round of the loop is a step `Hear` of the abstract
module and every other step a stutter.

`OrbSystem_proofs` (for every number of streams, configuration and device that satisfy
`OrbAssumption` and `OrbSystemAssumption`): `TypeCorrect`, `FinishBeforeReply`
(ReplyAfterFinish) and `AtMostOneReply` (OneReplyPerTurn). `ReplyAfterFinish` depends on
what h2 knows: finish fails only if the stream is closed, and one must show that a stream
on which DATA is being handled is closed only by the device's reset. `IInv` therefore ties
together the device's half of a stream and the frames of it in flight (`Gated`,
`RequestFirst`, `Unopened`, `Unheard`), the batch and h2's states (`BatchIsKnown`,
`ClosedForAReason`, `ResetsAreGone`), and the endpointer and the replies (`ArmedIsFresh`:
a stream whose endpointer is armed has been neither answered nor replied to). The proof
that a step preserves it goes action by action and conjunct by conjunct; steps of the
server, steps of the device and the loss of the connection are separate lemmas. No assumption on
`WindowFills` is needed: a window too small for `finish` is too small for the directive.

`OrbReplies_proofs` (on the invariant of `OrbSystem_proofs`): `OwnReplyIsHeard` (NeverRejectsOwnReply),
`RepliesAreAimed` (NoReplyMissed) and `AssetsStop` (PushesStop), all about `down`, the messages the device
has yet to read. `ReplyInv` says that a reply in the queue to the turn under way has its `b"finish"` ahead of
it (`FinishAhead`): either on_endpoint put it there in the same step, or it could not be sent, and then
`ReplyAfterFinish` says that the device had reset the stream, so that the turn is over. Since the device
reads in order, the guard is down when the reply arrives. `IdInv` says that while an endpointer is armed the
id of the device is known (`Learned`), hence every reply carries it (`Aimed`). `AssetsStop`
rests on `PushInv`: a directive that is queued or was read on this connection is noted in
`pushed_anims` (`PushNoted`), a file the device has in `ASSET_SERVED` (`ServedNoted`), and on a connection that is down nothing was
sent (`NothingSent`), so that a new instance with `pushed_anims` unset may begin. The guard then gives the property. The invariant is
where the flags' assignments matter: without the one in `_push_anims` or the one in the side channel it is not inductive. Each
handler appends a known list of messages, and counting the asset directives of a queue commutes with
appending and reading (`AnimsAppend`, `AnimsTail`).

`OrbStreams_proofs` (on both): `ExceptionsHaveAReason` (NoEscapedException) and `ClosedIsForgotten`
(NoLeakedState). h2 applies a whole batch of frames before the first handler runs, so a handler may find its
stream in a later state than its event says. `StreamInv` says how much later: what h2 knows and the handlers do
not is an end or a reset that is still in the batch (`EndApplied`, `ResetApplied`, `KnownIsOpen`), and what the
device did and h2 does not know is still on the wire (`OpenEnough`, `StillIdle`). After the end of a stream only
its reset follows (`ClosersLast`), so the handler of an end finds its stream open unless a reset came in the same
batch, or headers were sent before, which with room in the window means it was answered (`HeadersOnce`). The
device's sends are one lemma (`SentInv`) over the frames a send may add, the handlers another (`StreamStepInv`)
over what a handler may do to its own stream.

Also in `OrbStreams_proofs`, on all of these: `NothingIsLost` (UploadBanked). `Pending(s)` counts the DATA frames of
stream s still on the wire. Until the server has handled the end of a stream, or the reset instead of it
(`Closing`), what the device sent is in the body or pending, and if the turn was answered before its end, the
body holds a beginning of it as long as the utterance that was saved (`Counted`, `Cut`). From then on nothing
is pending, the longest flush was of everything or of that beginning, and the body can only be flushed again
with the same length (`Kept`, `Banked`). The step of interest is the handler of the closer: `BehindEvent` shows
that no data is behind it, so that the count of what is pending is zero exactly when the body is flushed.

`NvsStore_proofs` (for every number and size of pages): `TypeCorrect` (TypeOK) for values of any length, and
`BitmapStaysTrue` (BitmapAgrees) under `ShortEntries`, that no value takes more slots than the walkers believe;
without it `Erased` frees the head alone and leaves its data written. `StoreInv` says that behind a
live head lies its data, written and in order (`Whole`), that nothing else is written (`Owned`), and that what
the device is about to erase is a set of live heads (`PendingHeads`). A slot cannot have two owners since the
later head would have to lie in the data of the earlier (`OneOwner`), so that erasing whole entries leaves
whole entries (`ErasedSound`). That the CHOOSE of the active page, of the first fit and of the last match choose
anything rests on `Least` and `Greatest`, from the library's well-foundedness of the naturals.

On top of it, under `ShortEntries`: `StoreImplementsMap` (ImplementsMap), the refinement of `NvsMap`,
`OldStaysGoneForGood` (OldStaysGone) and `SetIsReadBack` (SetReadsBack). What nvs_parse.py finds is a walk over
the pages, a recursive function; `WalkFinds` says what it finds without the walk: the heads that are
live, each once (`FoundAll`), of which the last written counts (`LiveIs`, `TopIsOne`). That is so as long as
pages are filled from the front (`Laid`) and the one active page is the youngest, the sequence numbers being
distinct (`Aged`), and a pending erasure is of an entry that has been written anew (`Outdated`). These make up
`MapInv`. Each action is then a lemma about `Store`: a write puts one value (`SetStep`, `AppendStep`),
everything else leaves the map as it is (`EraseStep`, `LossStep`, `NextPageStep`, `RecycleStep`). The assumption
that `Blank` is no entry (`NvsAssumption`) was stated for this proof; TLC evaluates it.

`BuildPipeline_proofs` (for every set of sounds, clips and sizes, every list of edits and number of runs,
under `FlashAssumption`): `Validity` (ImagesStayValid) and `DumpsAreSafe` (DumpsSurvive). `IInv`
says that every app file that is whole is as right as the first dump (`ImagesOK`), that the temporary
behind patch_system_audio.py has a right checksum whatever the dump had (`AudioOK`), and that the
file a build reads next is the one it was given or one of its temporaries (`CurOK`). The core of the
first theorem is `PatchedSum`: the checksum as a set of pieces, XOR as symmetric difference, so that
moving it by the old and the new piece of one site gives the sum of the patched image. `CurOK` is
what the second needs: without it `AppMove` could move any file, and one must see that it moves a
dump only when no step was taken.

The same module proves `TypeCorrect` (TypeOK), `ShipsWhatWasAsked` (FlashIsAsAsked) and `NoChainFallsShort`
(PreflightOnlyForOverride), for any earlier runs over the same directory. `FlashIsAsAsked` speaks of the end of
a run; `RunInv` says what holds on the way there: after n steps the file that is read next is what the first n
patches make of the image the run was given (`Patching`), or the first n edits of its NVS map (`Editing`); what
is not edited yet is what it was when the run began (`Untouched`), which is where a leftover of an earlier run
under the name of a temporary would show. The image a run should end with is worked out set by set
(`AskedImage`, a recursive function), while the patcher puts all sets in at once; `AskedImageIs` shows the two
equal, by the least number of sets for which they would differ. That the last of several sets for one name
counts is `SetForNext`. A failed preflight then leaves one reason, `RegisterOverride`. `PipelineAssumption`
says that no image and no map is one of the marks `NoFile` and `Torn`.

`Spiffs_proofs` (for every size of pages, blocks and image that satisfies `SpiffsAssumption` and
`RoomAssumption`, and every directory): `TypeCorrect` (TypeOK), `Mounts` (Mountable), `ReadsBack` (ReadBack)
and `FullWhenFull` (FullOnlyWhenFull), on three invariants, each on the one before it. `LayoutInv` is about blocks: the
lookup of a block says of every page what the page is (`Mirrored`), the index page being filled is where the
builder thinks it is (`Open`), and no page belongs to a file to come (`Before`). `ObjectsInv` is about objects:
the index pages of a file carry the spans 0 to n-1, each once, all but the last of them full, and their
entries name its data pages in order (`Laid`). A step adds a page behind everything there is, so that what was laid
out stays (`LaidStays`, `EntriesStay`); the cases are the ends, where a page opens a new index page, a new
block, or both. Reading back then is arithmetic: a page number names one block and one page of it (`PageAtIs`,
from `DivMod`), and the search for an index page finds one because only one has that span (`IndexOfIs`). `CountInv` says that
the pages in use are those the files need, so that an image that is full was too small (`NeedAllAppend`, `OneMore`).
`NeedAll` is a recursive function over a list; that it exists and that a longer list goes on from a shorter one is shown by
the least counterexample (`SumsExist`, `SumsAgree`). `Mounts` rests on `LuImageIs`: behind the entries
of a lookup page lie free slots, the magic number of the block, and nothing else.

`PushServer_proofs` (for every set of names, encodings, packs of up to a hundred files and `--anim-as`, under
`CodecAssumption`, `StageAssumption` and `PushAssumption`): `TypeCorrect` (TypeOK), `DecodesWhatWasEncoded` (DecodesBack),
`LoopsAsTold` (LoopsWithoutSnap) and `OffersWhatWasPacked` (ServedAsPacked). The invariant `IInv` says what the
files have to do with one another and with what was read of them: while stage_anims.sh runs its sources stay and the sidecar is not yet
the zip's; once both are written, the durations are those printed for the first file (`FilesInv`); and what a
server offers is the rewriting of the manifest and of the bytes of zips that were whole when it read them
(`ServerInv`), with the durations that belong to the first of them if it was `paired` (`Told`). What both
rewritings do is a loop over the entries, a recursive function: `Turns`, which exists (`TurnsExist`) and is followed turn by turn.
`Rewritten` is what every turn keeps, whatever the names: length, sizes, durations, and that no file is offered twice. `InPlace` is
what it keeps if the names packed are not in each other's way (`Clash`): after n turns every entry has
the name it should, and its own bytes under it. `NamesDiffer` is the reason: a shortened name is no longer than
the budget and carries its index, so it meets no name that is still to be shortened and no other shortened one; what is left is `Clash`.
`OffersWhatWasPacked` has one hypothesis on the constants, `Roomy`: character and version take 17 characters or less
(the defaults take 7). Beyond that the budget is raised to what the fan does not take, by the code's own
`if _budget < 5`, or leaves no room for a letter and an index. `LoopsAsTold` follows the duration from the encoder through `told`, the
sidecar, the manifest and both rewritings, and `AutoLoopLenIs` says what the search ends with. `DecodesWhatWasEncoded` needs
`ColumnBack` and where a column lies in the file (`DivMod`). `TypeOK` measures
the files offered by the pack the bytes were read from, not by the manifest: a pack replaced between the two times it is opened can have more.

What stays with TLC: liveness under fairness (`TurnCompletes`, `ReplyReachesDevice`,
`AssetsDelivered`, `EveryTurnEnds`, `EndsInAnImage`, `StartRecovers`), which is out of the prover's reach. Every invariant and
every safety property of steps that a passing run checks is stated by a theorem as well.

## 6. Not modelled

cmd1 code injection: abandoned, the documents record that the placement is impossible.
`host_lan_ips`, `make_placeholder_opus`, `load_vad`, `log`: I/O whose results are constants. Of the animation
codec: sampling, rotation and dithering of pictures, `encode_sweep`, the decoder's `auto_cpr` and rendering,
orb_lock_calibrate.py (floating-point image processing without state). Of the modelled parts:
log text, file names of captures, WAV headers, JSON payloads, TLS; the branch of
`_audio_http_client` for the zip (it changes no state); order, is_bootup and versions in the manifest;
offsets and segments of app images; byte order and padding of SPIFFS pages; NVS CRCs; two connections at the same time.

## 7. Plan

Done: all modules of section 2. Left:

1. A second device connection beside the first, for the module globals (`ASSET_SERVED`, the names of captures),
   and the theorems of `OrbSystem_proofs` for it.
2. What h2 does when the send window is full is assumed by `WindowFills`; the window itself, with WINDOW_UPDATE frames, is
   not modelled.
