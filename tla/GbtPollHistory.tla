-------------------------- MODULE GbtPollHistory ---------------------------
(***************************************************************************)
(* GbtPoll with history variables that remember which of a register's      *)
(* values every received byte and every displayed signal comes from, how   *)
(* old the requests on the line are, and whether the outstanding read has  *)
(* been answered.  They only watch: each action is one of GbtPoll and an   *)
(* update of the history, except for the bound MaxChanges on the changes a *)
(* register makes by itself.                                               *)
(***************************************************************************)
EXTENDS GbtPoll

CONSTANT MaxChanges   \* bound: a register changes by itself only while it has
                      \* had fewer values than this

ASSUME MaxChangesAssumption == MaxChanges \in Nat

VARIABLES
  past,      \* the values each register has had, the last one its present one
  rxver,     \* for every byte of rx, which of those it carries; 0 for noise
  shown,     \* which of those is displayed; 0 for the initial display
  since,     \* for every request of txline, how many new ones were issued since,
             \* sent or not; at most a round of sweeps
  answered   \* has an answer for the last new read been received since?

history == <<past, rxver, shown, since, answered>>
hvars == <<vars, history>>

\* Where the bytes for address a are stored.
TargetOf(a) ==
  IF a \in SwitchAdr THEN <<"switch", a>> ELSE <<"probe", a - MAX_SWITCHES>>

\* The requests of a read sweep and a write sweep.
Round == 2 * GBT_DATA_WIDTH

HInit ==
  /\ Init
  /\ past = [a \in Adr |-> <<regs[a]>>]
  /\ rxver = << >>
  /\ shown = [a \in Adr |-> 0]
  /\ since = << >>
  /\ answered = TRUE

\* One more request was issued.
Aged == [i \in DOMAIN since |-> IF since[i] < Round THEN since[i] + 1 ELSE Round]

HTransmitt ==
  /\ Transmitt
  /\ LET older == IF TX_sentRequest = REQ_IDLE THEN Aged ELSE since
     IN  since' = IF txline' = txline THEN older ELSE Append(older, 0)
  /\ answered' = (answered /\ ~ (TX_sentRequest = REQ_IDLE /\ txReq = REQ_READ))
  /\ UNCHANGED <<past, rxver, shown>>

HReceive ==
  /\ Receive
  /\ IF TX_sentRequest = REQ_READ
       THEN /\ rxver' = Unpolled(rxver)
            /\ shown' = [a \in Adr |->
                 LET i == LastFor(Polled(rx), TargetOf(a))
                 IN IF i = 0 THEN shown[a] ELSE Polled(rxver)[i]]
            /\ answered' = (answered \/ \E i \in 1 .. PollCount :
                                          AdrOf(Polled(rx)[i]) = tx_data[2])
       ELSE UNCHANGED <<rxver, shown, answered>>
  /\ UNCHANGED <<past, since>>

HFpgaRead(a) ==
  /\ FpgaRead(a)
  /\ rxver' = Append(rxver, Len(past[a]))
  /\ since' = Tail(since)
  /\ UNCHANGED <<past, shown, answered>>

HFpgaWrite(a) ==
  /\ FpgaWrite(a)
  /\ past' = IF regs'[a] = regs[a] THEN past
             ELSE [past EXCEPT ![a] = Append(@, regs'[a])]
  /\ since' = Tail(since)
  /\ UNCHANGED <<rxver, shown, answered>>

HLoseRequest ==
  /\ LoseRequest
  /\ since' = Tail(since)
  /\ UNCHANGED <<past, rxver, shown, answered>>

HGlitch ==
  /\ Glitch
  /\ rxver' = Append(rxver, 0)
  /\ UNCHANGED <<past, shown, since, answered>>

HRegisterChange(a) ==
  /\ Len(past[a]) < MaxChanges
  /\ RegisterChange(a)
  /\ past' = [past EXCEPT ![a] = Append(@, regs'[a])]
  /\ UNCHANGED <<rxver, shown, since, answered>>

HNext ==
  \/ HTransmitt
  \/ HReceive
  \/ \E a \in Adr : HFpgaRead(a)
  \/ \E a \in Adr : HFpgaWrite(a)
  \/ HLoseRequest
  \/ HGlitch
  \/ \E a \in Volatile : HRegisterChange(a)

HSpec == HInit /\ [][HNext]_hvars

-----------------------------------------------------------------------------
(* Properties *)

\* The types of the history variables that watch the bytes.
HistoryTypeOK ==
  /\ past \in [Adr -> Seq(Bit)]
  /\ \A a \in Adr : past[a] # << >> /\ regs[a] = past[a][Len(past[a])]
  /\ rxver \in Seq(Nat) /\ Len(rxver) = Len(rx)
  /\ shown \in [Adr -> Nat]
  /\ answered \in BOOLEAN

\* A displayed value is one that very signal's register really had, or the
\* initial one: an answer is never stored under another address, as a switch
\* instead of a probe, or taken from noise.
DisplayGenuine ==
  \A a \in Adr :
    \/ shown[a] \in 1 .. Len(past[a]) /\ Displayed(a) = past[a][shown[a]]
    \/ /\ shown[a] = 0
       /\ Displayed(a) = IF a \in SwitchAdr THEN GBT_SWTABLE[a] ELSE 85

\* Receive never replaces a displayed value by one the register had earlier,
\* however many answers to repeated requests are still under way.
DisplayNeverGoesBack == [][\A a \in Adr : shown[a] <= shown'[a]]_hvars

\* The type of the ages: one for every request on the line.
SinceTypeOK == since \in Seq(0 .. Round) /\ Len(since) = Len(txline)

\* The position k requests after p in the round of sweeps.
After(p, k) == IF p + k < Round THEN p + k ELSE p + k - Round

\* Whatever failed to be sent or was lost, the requests on the line come in the
\* order in which the sweeps issued them, each at its own distance from the one
\* in tx_data, and none is there twice except a read that was repeated.  Of
\* requests older than a round only the order of their ages is claimed.
LineInOrder ==
  \A i \in 1 .. Len(txline) :
    /\ since[i] < Round => After(PositionOf(txline[i]), since[i]) = PositionOf(tx_data)
    /\ since[i] = 0 => txline[i] = tx_data
    /\ \A j \in i + 1 .. Len(txline) :
         \/ since[i] > since[j] \/ since[i] = Round
         \/ since[i] = since[j] /\ txline[i] = txline[j] /\ txline[i][1] = REQ_READ

\* What a comment promises of a read (main.c: "If a byte is not received,
\* repeat the request for that address"): the engine goes on to its next
\* request only when the address it asked for has been answered.
ReadAnswered ==
  handler = "Transmitt" /\ TX_sentRequest = REQ_IDLE /\ tx_data[1] = REQ_READ
    => answered
=============================================================================
