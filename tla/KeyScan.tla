------------------------------ MODULE KeyScan ------------------------------
(***************************************************************************)
(* apps/cpu/key_drv: the scan of the keys every 10 ms in the timer         *)
(* interrupt.  key_drv_ad_vddio.c turns the voltage into a key and filters *)
(* it; key.c turns the run of filtered keys into short, long, hold and     *)
(* long-up messages, and waits for a second click of one key.              *)
(*                                                                         *)
(* A message is the pair <<status, key>> key2msg_filter is called with:    *)
(* the running task's table makes it a number.  There is a table from the  *)
(* first task on; without one nothing is posted.                           *)
(***************************************************************************)
EXTENDS Naturals

CONSTANTS
  Keys,      \* key numbers; NO_KEY is no number
  NoKey,     \* NO_KEY
  Click,     \* the key with a double click: 0
  Double,    \* the number a double click is reported as: 9
  Base,      \* KEY_BASE_CNT
  Short,     \* KEY_SHORT_CNT
  Long,      \* KEY_LONG_CNT
  Hold,      \* KEY_HOLD_CNT
  Gap,       \* 15: a second click that comes sooner is ignored
  Wait,      \* KEY_DOUBLE_CLICK_CNT
  Width      \* values of a u8

ASSUME KeyAssumption ==
  /\ NoKey \notin Keys /\ {Click, Double} \subseteq Keys
  /\ Base \in Nat \ {0} /\ Short \in Nat /\ Long \in Nat /\ Hold \in Nat \ {0}
  /\ Gap \in Nat \ {0} /\ Wait \in Nat /\ Width \in Nat
  /\ Base <= Short /\ Short < Long
  /\ Gap < Wait /\ Wait < Long
  /\ Long + Hold < Width

VARIABLES
  used, old, cnt,         \* key_filter: used_key, old_key, key_counter
  last, counter, flag,    \* key_scan: last_key, key_press_counter, key_press_flag
  posted,    \* the message this scan posted for the run that ends or goes on
  single,    \* it also posted the click that waited, before that
  latest,    \* history: the last message posted
  down,      \* history: the last sample was a key
  seen       \* history: the keys sampled since the press began

filter == <<used, old, cnt>>
scan == <<last, counter, flag>>
output == <<posted, single, latest>>
history == <<down, seen>>
vars == <<filter, scan, output, history>>

None == <<"NONE", NoKey>>

Init ==
  /\ used = NoKey /\ old = Click /\ cnt = 0      \* old_key is 0
  /\ last = NoKey /\ counter = 0 /\ flag = 0
  /\ posted = None /\ single = FALSE /\ latest = None
  /\ down = FALSE /\ seen = {}

\* Faulty variant: the filter is slower than a short press.
KeyFilter_Slow(raw) ==
  IF old # raw THEN cnt' = 0 /\ old' = raw /\ used' = used
  ELSE /\ cnt' = (cnt + 1) % Width
       /\ used' = IF cnt' = Base + Short + 2 THEN raw ELSE used
       /\ old' = old

\* key_filter: until a key is stable it answers with the one before.
KeyFilter(raw) ==
  IF old # raw THEN cnt' = 0 /\ old' = raw /\ used' = used
  ELSE /\ cnt' = (cnt + 1) % Width
       /\ used' = IF cnt' = Base THEN raw ELSE used
       /\ old' = old

\* get_adkey_value: NO_KEY passes unfiltered.
Read(raw) == IF raw = NoKey THEN UNCHANGED filter ELSE KeyFilter(raw)
Current(raw) == IF raw = NoKey THEN NoKey ELSE used'

\* key_press_flag at the head of key_scan; beyond Wait the click was single.
Waited == IF flag = 0 THEN 0 ELSE flag + 1

Expired == Waited > Wait
Pending == IF Expired THEN 0 ELSE Waited

\* Faulty variants: a hold does not set the count back; another key goes on
\* with the count of the one before.
Counter_GoesOn(cur) ==
  IF cur # last THEN 0 ELSE IF cur = NoKey THEN counter ELSE counter + 1
Counter_KeptByChange(cur) ==
  IF cur = last THEN IF cur = NoKey THEN counter
                     ELSE IF counter + 1 = Long + Hold THEN Long ELSE counter + 1
  ELSE IF cur = NoKey THEN 0 ELSE counter

\* key_press_counter after the scan.
Counter(cur) ==
  IF cur = last THEN IF cur = NoKey THEN counter
                     ELSE IF counter + 1 = Long + Hold THEN Long ELSE counter + 1
  ELSE 0

\* key_status, or none.
Status(cur) ==
  IF cur = last THEN IF cur = NoKey THEN "NONE"
                     ELSE IF counter + 1 = Long THEN "LONG"
                     ELSE IF counter + 1 = Long + Hold THEN "HOLD" ELSE "NONE"
  ELSE IF cur # NoKey THEN "NONE"
  ELSE IF counter > Short /\ counter < Long THEN "SHORT_UP"
  ELSE IF counter >= Long THEN "LONG_UP" ELSE "NONE"

\* A click of the key with a double click waits, is a second one, or comes
\* too soon after the first.
Clicked(status) == last = Click /\ status = "SHORT_UP"
Flag(status) ==
  IF ~Clicked(status) THEN Pending
  ELSE IF Pending = 0 THEN 1
  ELSE IF Pending > Gap THEN 0 ELSE Pending
Message(status) ==
  IF status = "NONE" THEN None
  ELSE IF ~Clicked(status) THEN <<status, last>>
  ELSE IF Pending > Gap THEN <<status, Double>> ELSE None

\* key_scan
Scan(raw) ==
  /\ Read(raw)
  /\ LET cur == Current(raw)
         status == Status(cur)
     IN  /\ last' = cur
         /\ counter' = Counter(cur)
         /\ flag' = Flag(status)
         /\ posted' = Message(status)
  /\ single' = Expired
  /\ latest' = IF posted' # None THEN posted'
               ELSE IF single' THEN <<"SHORT_UP", Click>> ELSE latest
  /\ down' = (raw # NoKey)
  /\ seen' = IF raw = NoKey THEN seen ELSE IF down THEN seen \union {raw} ELSE {raw}

Next == \E raw \in Keys \union {NoKey} : Scan(raw)

Spec == Init /\ [][Next]_vars

-----------------------------------------------------------------------------
(***************************************************************************)
(* Properties.                                                             *)
(***************************************************************************)
\* Every variable keeps its range; the two counters of key_scan never wrap.
TypeOK ==
  /\ used \in Keys \union {NoKey} /\ old \in Keys /\ cnt \in 0 .. Width - 1
  /\ last \in Keys \union {NoKey}
  /\ counter \in 0 .. Long + Hold - 1
  /\ flag \in 0 .. Wait
  /\ {posted, latest} \subseteq
       {"NONE", "SHORT_UP", "LONG", "HOLD", "LONG_UP"} \X (Keys \union {NoKey})
  /\ single \in BOOLEAN
  /\ down \in BOOLEAN /\ seen \subseteq Keys

\* The messages of a long press follow one another: between LONG and LONG_UP
\* no other message comes, the click that still waits for a second one
\* included, and there is no HOLD and no LONG_UP without LONG.
Ordered ==
  [][posted'[1] \in {"HOLD", "LONG_UP"} =>
       ~single' /\ latest \in {<<"LONG", posted'[2]>>, <<"HOLD", posted'[2]>>}]_vars

\* A press on one key is reported as that key: while the filter still answers
\* with the key before, the scan does not count far enough for a message.
SteadyRight ==
  \A k \in Keys : posted # None /\ seen = {k} =>
    posted[2] = k \/ (k = Click /\ posted[2] = Double)

\* key_drv_ad_vddio.c:84: "outputs the stable key"; a message names a key
\* that was pressed.
PressedKey ==
  posted # None => posted[2] \in seen \/ (posted[2] = Double /\ Click \in seen)
=============================================================================
