------------------------------- MODULE MPELedger -------------------------------
(***************************************************************************)
(* What the SDK sees of the MultiPartyEscrow contract and of the chain     *)
(* under it, for one payer account and one (recipient, payment group).     *)
(* The contract itself is not in the repository: it is modelled from how   *)
(* pkg/blockchain/mpe.go calls it and from what its events are taken to    *)
(* mean there.                                                             *)
(*                                                                         *)
(* The payer's transactions carry consecutive account nonces, so the       *)
(* mempool is a queue.  A transaction that breaks a requirement of the     *)
(* contract is mined without effect and emits no event.                    *)
(***************************************************************************)
EXTENDS Naturals, Sequences

CONSTANTS MaxChannels,   \* bound: channels the payer can open
          InitialWallet, \* tokens the payer owns at the start
          MaxHeight      \* bound: last block of the model

ASSUME LedgerAssumption ==
    /\ MaxChannels \in Nat \ {0}
    /\ InitialWallet \in Nat
    /\ MaxHeight \in Nat

VARIABLES wallet,      \* tokens in the payer's wallet
          escrow,      \* the payer's balance inside the contract
          opened,      \* how many channels exist; ids are 1..opened
          value,       \* tokens locked in each channel
          nonce,       \* claim counter of each channel
          expiration,  \* expiration block of each channel
          openEvent,   \* the ChannelOpen event of each channel
          mempool,     \* submitted transactions, in account-nonce order
          height       \* current block

ledgerVars == <<wallet, escrow, opened, value, nonce, expiration, openEvent>>
chainVars  == <<ledgerVars, mempool, height>>

ChanId == 1..MaxChannels
Event  == {"open", "deposit", "add", "extend"}
TxKind == {"open", "depositOpen", "deposit", "add", "extend", "extendAdd"}

\* exp is the expiration the submitting attempt asks for and born the block it
\* started at; id is 0 when the transaction names no channel.
Tx == [kind : TxKind, id : ChanId \cup {0}, amount : Nat, exp : Nat, born : Nat]

Opens(tx)   == tx.kind \in {"open", "depositOpen"}
Extends(tx) == tx.kind \in {"extend", "extendAdd"}

\* Tokens the transaction pulls from the wallet into the contract balance, and
\* tokens it locks in a channel out of that balance.
Pulled(tx) == IF tx.kind \in {"deposit", "depositOpen"} THEN tx.amount ELSE 0
Locked(tx) == IF tx.kind \in {"deposit", "extend"} THEN 0 ELSE tx.amount

Target(tx) == IF Opens(tx) THEN opened + 1 ELSE tx.id

EmittedBy(tx) ==
    CASE tx.kind = "open"        -> {"open"}
      [] tx.kind = "depositOpen" -> {"deposit", "open"}
      [] tx.kind = "deposit"     -> {"deposit"}
      [] tx.kind = "add"         -> {"add"}
      [] tx.kind = "extend"      -> {"extend"}
      [] tx.kind = "extendAdd"   -> {"add", "extend"}

\* The requirements of the contract.
Accepted(tx) ==
    /\ Pulled(tx) <= wallet
    /\ Locked(tx) <= escrow + Pulled(tx)
    /\ Opens(tx)   => opened < MaxChannels
    /\ Extends(tx) => tx.exp >= expiration[tx.id]

Apply(tx) ==
    /\ wallet' = wallet - Pulled(tx)
    /\ escrow' = (escrow + Pulled(tx)) - Locked(tx)
    /\ opened' = IF Opens(tx) THEN opened + 1 ELSE opened
    /\ value'  = IF tx.kind = "deposit" THEN value
                 ELSE [value EXCEPT ![Target(tx)] = @ + Locked(tx)]
    /\ expiration' = IF Opens(tx) \/ Extends(tx)
                     THEN [expiration EXCEPT ![Target(tx)] = tx.exp]
                     ELSE expiration
    /\ openEvent' = IF Opens(tx)
                    THEN [openEvent EXCEPT ![Target(tx)] =
                            [amount |-> tx.amount, expiration |-> tx.exp]]
                    ELSE openEvent
    /\ UNCHANGED nonce

Submit(tx) == mempool' = Append(mempool, tx)

LedgerInit ==
    /\ wallet = InitialWallet
    /\ escrow = 0
    /\ opened = 0
    /\ value = [i \in ChanId |-> 0]
    /\ nonce = [i \in ChanId |-> 0]
    /\ expiration = [i \in ChanId |-> 0]
    /\ openEvent = [i \in ChanId |-> [amount |-> 0, expiration |-> 0]]
    /\ mempool = <<>>
    /\ height = 0

LedgerTypeOK ==
    /\ wallet \in Nat
    /\ escrow \in Nat
    /\ opened \in 0..MaxChannels
    /\ value \in [ChanId -> Nat]
    /\ nonce \in [ChanId -> Nat]
    /\ expiration \in [ChanId -> Nat]
    /\ openEvent \in [ChanId -> [amount : Nat, expiration : Nat]]
    /\ mempool \in Seq(Tx)
    /\ height \in Nat
================================================================================
