---------------------------- MODULE BlockWrites ----------------------------
(***************************************************************************)
(* The account writes of one block (zul-node/src/node.rs,                  *)
(* try_produce_block): the executor's final accounts, the shielded pool's  *)
(* lamport and token overlays over them, the merge of the two, credited    *)
(* deposits and burned withdrawals of native lamports and of one wrapped   *)
(* token, and their commit.                                                *)
(*                                                                         *)
(* An account is its lamports and its data: the amount of a token account, *)
(* the supply of the wrapped mint, the number of commitments of the pool   *)
(* state account.  A map of writes is a function whose domain is the keys  *)
(* written; None is a deletion.  Transactions that are refused change      *)
(* nothing and are left out; blocks and signatures are in Sequencer, proofs*)
(* and nullifiers in ShieldedPool.                                         *)
(***************************************************************************)
EXTENDS Integers, FiniteSets, FiniteSetsExt, TLC

CONSTANTS Users, Collector, Vault,  \* owners of wallets and token accounts
          None,
          Fee,          \* of a signature, of a pool transaction, of a withdrawal
          Rent,         \* rent_exempt_lamports of a synthesized account
          UserLamports, UserTokens,  \* what users hold at first
          Payees,       \* keys that lamports may be sent to
          \* bounds of the model
          Amounts, MaxSteps, MaxBlocks

Owners == Users \cup {Collector, Vault}
Wallet(o) == <<"wallet", o>>
Ata(o) == <<"ata", o>>           \* associated_token_address
Mint == <<"mint", None>>         \* wrapped_mint_address
PoolState == <<"pool", None>>
Keys == {Wallet(o) : o \in Owners} \cup {Ata(o) : o \in Owners} \cup {Mint, PoolState}

ASSUME BlockWritesAssumption ==
  /\ Collector \notin Users /\ Vault \notin Users /\ Collector # Vault
  /\ {Fee, Rent, MaxSteps, MaxBlocks} \subseteq Nat /\ Amounts \subseteq Nat \ {0}
  /\ UserLamports \in [Users -> Nat] /\ UserTokens \in [Users -> Nat]
  /\ Payees \subseteq Keys

VARIABLES
  store,         \* committed accounts
  phase,         \* svm, pool, deposits or withdraws
  final_accounts, fees_collected,  \* execute_block
  loaded,        \* the batch's accounts as the transaction processor sees them
  writes,        \* the block's account writes
  overlay,       \* the pool's lamports
  token_overlay, \* the pool's token accounts
  pool_data,     \* PoolState as the pool's transactions leave it
  dirty,         \* state_dirty
  \* history: what the accounts should add up to
  blk, st,       \* effects of the running block, and of the committed ones
  overlapped,    \* an account was handled in two ways in a block (see Undone, Clash, Stale)
  steps, blocks  \* counters of the bounds

blkVars == <<phase, final_accounts, fees_collected, loaded, writes, overlay, token_overlay,
             pool_data, dirty>>
vars == <<store, blkVars, blk, st, overlapped, steps, blocks>>

Account(lamports, data) == [lamports |-> lamports, data |-> data]
NoWrites == [k \in {} |-> None]

\* Lamports that deposits, synthesized accounts and payments of the vault to itself
\* brought in less those burned, tokens likewise, value of the unspent notes of each,
\* commitments inserted.
NoEffect == [lamports |-> 0, tokens |-> 0, notes |-> 0, token_notes |-> 0, commitments |-> 0]

GenesisAccount(k) ==
  IF k \in {Wallet(u) : u \in Users} THEN Account(UserLamports[k[2]], 0)
  ELSE IF k \in {Ata(u) : u \in Users} THEN Account(Rent, UserTokens[k[2]])
  ELSE IF k = Mint THEN Account(Rent, MapThenSumSet(LAMBDA u : UserTokens[u], Users))
  ELSE IF k = PoolState THEN Account(1, 0)
  ELSE None

Genesis == [k \in Keys |-> GenesisAccount(k)]

\* The chain after wrapped deposits to the users; no block is running.
Init ==
  /\ store = Genesis
  /\ phase = "svm" /\ final_accounts = NoWrites /\ fees_collected = 0 /\ loaded = NoWrites
  /\ writes = NoWrites /\ overlay = NoWrites /\ token_overlay = NoWrites
  /\ pool_data = 0 /\ dirty = FALSE
  /\ blk = NoEffect /\ st = NoEffect /\ overlapped = FALSE
  /\ steps = 0 /\ blocks = 0

Step == steps < MaxSteps /\ blocks < MaxBlocks /\ steps' = steps + 1

----------------------------------------------------------------------------
\* The executor: an account as the processor sees it in the batch, over the committed
\* ones, and as the results collected so far have it.  One without lamports does not
\* exist.
SvmAccount(k) == IF k \in DOMAIN loaded THEN loaded[k] ELSE store[k]
SvmExists(k) == SvmAccount(k) # None /\ SvmAccount(k).lamports > 0
SvmLamports(k) == IF SvmExists(k) THEN SvmAccount(k).lamports ELSE 0
SvmData(k) == IF SvmExists(k) THEN SvmAccount(k).data ELSE 0
FinalAccount(k) == IF k \in DOMAIN final_accounts THEN final_accounts[k] ELSE store[k]
FinalLamports(k) == IF FinalAccount(k) = None THEN 0 ELSE FinalAccount(k).lamports

\* A transaction replaces what a failed one left of an account.
Undone(ks) == \E k \in ks : FinalAccount(k) # SvmAccount(k)

\* A transaction of the batch: its fee, the accounts it leaves, and those with which
\* the processor goes on.
Processed(changed, kept) ==
  /\ phase = "svm" /\ Step
  /\ final_accounts' = changed @@ final_accounts /\ loaded' = kept @@ loaded
  /\ fees_collected' = fees_collected + Fee
  /\ overlapped' = (overlapped \/ Undone(DOMAIN changed))
  /\ UNCHANGED <<store, phase, writes, overlay, token_overlay, pool_data, dirty, blk, st,
                 blocks>>

Executed(changed) == Processed(changed, changed)

Charge(u) == Wallet(u) :> Account(SvmLamports(Wallet(u)) - Fee, 0)

Transferred(u, k, n) ==
  (Wallet(u) :> Account(SvmLamports(Wallet(u)) - n - Fee, 0))
    @@ (k :> Account(SvmLamports(k) + n, SvmData(k)))

\* A transfer of lamports, to any account.
SvmTransfer(u, k, n) ==
  /\ k # Wallet(u) /\ SvmLamports(Wallet(u)) >= n + Fee
  /\ Executed(Transferred(u, k, n))

\* A transfer of wrapped tokens between existing token accounts.
SvmTokenTransfer(u, o, n) ==
  /\ o # u /\ SvmExists(Ata(u)) /\ SvmExists(Ata(o)) /\ SvmData(Ata(u)) >= n
  /\ SvmLamports(Wallet(u)) >= Fee
  /\ Executed(Charge(u) @@ (Ata(u) :> Account(SvmLamports(Ata(u)), SvmData(Ata(u)) - n))
                   @@ (Ata(o) :> Account(SvmLamports(Ata(o)), SvmData(Ata(o)) + n)))

\* A transaction that cannot be loaded, or whose first instruction fails, pays its fee.
SvmFailed(u) ==
  /\ SvmLamports(Wallet(u)) >= Fee
  /\ Executed(Charge(u))

\* A transaction that fails after a transfer of its own: the accounts are collected
\* whatever its status, the processor goes on with the payer charged and the rest
\* rolled back.
SvmFailedLater(u, k, n) ==
  /\ k # Wallet(u) /\ SvmLamports(Wallet(u)) >= n + Fee
  /\ Processed(Transferred(u, k, n), Charge(u))

\* An empty token account is closed, its lamports go to the owner.
SvmClose(u) ==
  /\ SvmExists(Ata(u)) /\ SvmData(Ata(u)) = 0 /\ SvmLamports(Wallet(u)) >= Fee
  /\ Executed((Wallet(u) :> Account(SvmLamports(Wallet(u)) - Fee + SvmLamports(Ata(u)), 0))
                   @@ (Ata(u) :> Account(0, 0)))

\* The end of execute_block: the fees go to the collector, an account without
\* lamports becomes a deletion.  The pool's overlay is seeded with the lamports
\* of the accounts that exist.
EndSvm ==
  LET collector == Account(FinalLamports(Wallet(Collector)) + fees_collected, 0)
      final == IF fees_collected = 0 THEN final_accounts
               ELSE (Wallet(Collector) :> collector) @@ final_accounts
      svm_writes == [k \in DOMAIN final |-> IF final[k].lamports = 0 THEN None ELSE final[k]]
      live == {k \in DOMAIN svm_writes : svm_writes[k] # None}
  IN /\ phase = "svm" /\ blocks < MaxBlocks /\ phase' = "pool"
     /\ writes' = svm_writes
     /\ overlay' = [k \in live |-> svm_writes[k].lamports]
     /\ pool_data' = store[PoolState].data
     /\ UNCHANGED <<store, final_accounts, fees_collected, loaded, token_overlay, dirty, blk, st,
                    overlapped, steps, blocks>>

----------------------------------------------------------------------------
\* The shielded pool.  Its reads fall back to the committed account where the
\* overlay has none, which is also where the executor deleted the account.
balance(lam, k) ==
  IF k \in DOMAIN lam THEN lam[k]
  ELSE IF store[k] = None THEN 0 ELSE store[k].lamports

\* Both balances are read before both are written: an account that moves lamports to
\* itself gains them.
move_lamports(lam, from, to, n) ==
  (to :> balance(lam, to) + n) @@ (from :> balance(lam, from) - n) @@ lam

token_account(toks, o) ==
  IF Ata(o) \in DOMAIN toks THEN toks[Ata(o)]
  ELSE IF store[Ata(o)] # None THEN store[Ata(o)]
  ELSE Account(Rent, 0)

token_balance(o) == token_account(token_overlay, o).data

\* As move_wrapped, the receiver read before the sender is written.
move_wrapped_stale(toks, from, to, n) ==
  LET f == token_account(toks, from)
      t == token_account(toks, to)
  IN (Ata(to) :> [t EXCEPT !.data = @ + n]) @@ (Ata(from) :> [f EXCEPT !.data = @ - n]) @@ toks

\* The receiver is read after the sender is written.
move_wrapped(toks, from, to, n) ==
  LET f == token_account(toks, from)
      sent == (Ata(from) :> [f EXCEPT !.data = @ - n]) @@ toks
      t == token_account(sent, to)
  IN (Ata(to) :> [t EXCEPT !.data = @ + n]) @@ sent

\* A native step reads an account that the executor deleted in this block.
Stale(ks) == \E k \in ks \cap DOMAIN writes : writes[k] = None /\ store[k] # None

PayFee(u) == move_lamports(overlay, Wallet(u), Wallet(Collector), Fee)

\* A pool transaction of payer u that passed its checks.
Applied(u, lam, toks, touched, effect) ==
  /\ phase = "pool" /\ Step
  /\ overlay' = lam /\ token_overlay' = toks
  /\ pool_data' = pool_data + effect.commitments - blk.commitments /\ dirty' = TRUE
  /\ blk' = effect
  /\ overlapped' = (overlapped \/ Stale(touched \cup {Wallet(u), Wallet(Collector)}))
  /\ UNCHANGED <<store, phase, final_accounts, fees_collected, loaded, writes, st, blocks>>

ShieldNative(u, n) ==
  /\ balance(overlay, Wallet(u)) >= n + Fee
  /\ Applied(u, move_lamports(PayFee(u), Wallet(u), Wallet(Vault), n), token_overlay,
             {Wallet(Vault)},
             [blk EXCEPT !.notes = @ + n, !.commitments = @ + 1])

ShieldSpl(u, n) ==
  /\ balance(overlay, Wallet(u)) >= Fee /\ token_balance(u) >= n
  /\ Applied(u, PayFee(u), move_wrapped(token_overlay, u, Vault, n), {},
             [blk EXCEPT !.token_notes = @ + n, !.commitments = @ + 1])

\* A private transfer that pays n of its notes as a fee.
Transfer(u, n) ==
  /\ balance(overlay, Wallet(u)) >= Fee /\ balance(overlay, Wallet(Vault)) >= n
  /\ st.notes + blk.notes >= n
  /\ Applied(u, move_lamports(PayFee(u), Wallet(Vault), Wallet(Collector), n), token_overlay,
             {Wallet(Vault)},
             [blk EXCEPT !.notes = @ - n, !.commitments = @ + 2])

\* The recipient may be any account, the vault included.
UnshieldNative(u, k, n) ==
  /\ balance(overlay, Wallet(u)) >= Fee /\ balance(overlay, Wallet(Vault)) >= n
  /\ st.notes + blk.notes >= n
  /\ Applied(u, move_lamports(PayFee(u), Wallet(Vault), k, n), token_overlay,
             {Wallet(Vault), k},
             [blk EXCEPT !.notes = @ - n, !.commitments = @ + 1,
                         !.lamports = @ + IF k = Wallet(Vault) THEN n ELSE 0])

UnshieldSpl(u, o, n) ==
  /\ balance(overlay, Wallet(u)) >= Fee /\ token_balance(Vault) >= n
  /\ st.token_notes + blk.token_notes >= n
  /\ Applied(u, PayFee(u), move_wrapped(token_overlay, Vault, o, n), {},
             [blk EXCEPT !.token_notes = @ - n, !.commitments = @ + 1])

\* The write of an overlay balance; the vault and the collector stay at zero.
lamport_write(k) ==
  IF store[k] # None THEN [store[k] EXCEPT !.lamports = overlay[k]]
  ELSE IF overlay[k] = 0 THEN None ELSE Account(overlay[k], 0)

\* The merge of one write of the pool: over an account already written this
\* block only its lamports are taken.
MergeOne(ws, k, acc) ==
  (k :> IF k \in DOMAIN ws /\ ws[k] # None /\ acc # None
        THEN [ws[k] EXCEPT !.lamports = acc.lamports] ELSE acc) @@ ws

\* The pool's writes of a kind, merged into ws; they have distinct keys.
MergeAll(ws, new) ==
  [k \in DOMAIN ws \cup DOMAIN new |->
     IF k \in DOMAIN new THEN MergeOne(ws, k, new[k])[k] ELSE ws[k]]

\* The pool writes the data of an account that the block already wrote, or
\* whose lamports the pool moved itself.
Clash == (DOMAIN token_overlay \cup (IF dirty THEN {PoolState} ELSE {}))
           \cap (DOMAIN writes \cup DOMAIN overlay) # {}

\* PoolStateWrite with the data the account had.
PoolStateWriteStale == IF dirty THEN PoolState :> store[PoolState] ELSE NoWrites

PoolStateWrite ==
  IF dirty THEN PoolState :> [store[PoolState] EXCEPT !.data = pool_data] ELSE NoWrites

\* The end of process_block_seeded, and the merge: lamports, then token
\* accounts, then the pool state.
Merge ==
  LET lamports == MergeAll(writes, [k \in DOMAIN overlay |-> lamport_write(k)])
      tokens == MergeAll(lamports, token_overlay)
      created == {k \in DOMAIN token_overlay : store[k] = None}
  IN /\ phase = "pool" /\ phase' = "deposits"
     /\ writes' = MergeAll(tokens, PoolStateWrite)
     /\ blk' = [blk EXCEPT !.lamports = @ + Rent * Cardinality(created)]
     /\ overlapped' = (overlapped \/ Clash)
     /\ UNCHANGED <<store, final_accounts, fees_collected, loaded, overlay, token_overlay,
                    pool_data, dirty, st, steps, blocks>>

----------------------------------------------------------------------------
\* View without the block's writes.
ViewCommitted(k) == store[k]

\* Deposits and withdrawals: an account of the block's writes, or the committed
\* one where there is none or it was deleted.
View(k) == IF k \in DOMAIN writes /\ writes[k] # None THEN writes[k] ELSE store[k]

\* An account's data raised by n, the account synthesized where there is none.
Minted(k, n) == IF View(k) = None THEN Account(Rent, n) ELSE [View(k) EXCEPT !.data = @ + n]

Native(written, effect) ==
  /\ Step
  /\ writes' = written @@ writes /\ blk' = effect
  /\ overlapped' = (overlapped \/ Stale(DOMAIN written))
  /\ UNCHANGED <<store, phase, final_accounts, fees_collected, loaded, overlay, token_overlay,
                 pool_data, dirty, st, blocks>>

\* A deposit credited as lamports, to any key.
CreditNative(k, n) ==
  LET acc == IF View(k) = None THEN Account(0, 0) ELSE View(k)
  IN /\ phase = "deposits"
     /\ Native(k :> [acc EXCEPT !.lamports = @ + n], [blk EXCEPT !.lamports = @ + n])

\* The wrapped mint and the recipient's token account.
credit_wrapped_spl(o, n) == (Mint :> Minted(Mint, n)) @@ (Ata(o) :> Minted(Ata(o), n))

CreditSpl(o, n) ==
  LET written == credit_wrapped_spl(o, n)
      created == {k \in DOMAIN written : View(k) = None}
  IN /\ phase = "deposits"
     /\ Native(written, [blk EXCEPT !.tokens = @ + n,
                                    !.lamports = @ + Rent * Cardinality(created)])

DepositsDone ==
  /\ phase = "deposits" /\ phase' = "withdraws"
  /\ UNCHANGED <<store, final_accounts, fees_collected, loaded, writes, overlay, token_overlay,
                 pool_data, dirty, blk, st, overlapped, steps, blocks>>

CollectorPaid ==
  LET acc == IF View(Wallet(Collector)) = None THEN Account(0, 0) ELSE View(Wallet(Collector))
  IN Wallet(Collector) :> [acc EXCEPT !.lamports = @ + Fee]

Charged(u, n) == Wallet(u) :> [View(Wallet(u)) EXCEPT !.lamports = @ - n]

\* A withdrawal of lamports.
BurnNative(u, n) ==
  /\ phase = "withdraws"
  /\ View(Wallet(u)) # None /\ View(Wallet(u)).lamports >= n + Fee
  /\ Native(CollectorPaid @@ Charged(u, n + Fee), [blk EXCEPT !.lamports = @ - n])

\* The token account and the mint's supply, which saturates.
burn_wrapped_spl(u, n) ==
  (Mint :> [View(Mint) EXCEPT !.data = IF @ >= n THEN @ - n ELSE 0])
    @@ (Ata(u) :> [View(Ata(u)) EXCEPT !.data = @ - n])

\* A withdrawal of wrapped tokens, the fee in lamports.
BurnSpl(u, n) ==
  /\ phase = "withdraws"
  /\ View(Wallet(u)) # None /\ View(Wallet(u)).lamports >= Fee
  /\ View(Ata(u)) # None /\ View(Ata(u)).data >= n
  /\ Native(burn_wrapped_spl(u, n) @@ CollectorPaid @@ Charged(u, Fee),
            [blk EXCEPT !.tokens = @ - n])

----------------------------------------------------------------------------
NextBlock ==
  /\ phase' = "svm" /\ final_accounts' = NoWrites /\ fees_collected' = 0 /\ loaded' = NoWrites
  /\ writes' = NoWrites /\ overlay' = NoWrites /\ token_overlay' = NoWrites
  /\ pool_data' = 0 /\ dirty' = FALSE
  /\ blk' = NoEffect

\* commit_block.
Commit ==
  /\ phase = "withdraws" /\ NextBlock
  /\ store' = [k \in Keys |-> IF k \in DOMAIN writes THEN writes[k] ELSE store[k]]
  /\ st' = [f \in DOMAIN st |-> st[f] + blk[f]]
  /\ blocks' = blocks + 1
  /\ UNCHANGED <<overlapped, steps>>

\* The block is lost with a crash, or with an error of a step.
Lose ==
  /\ blocks < MaxBlocks /\ phase # "svm" /\ NextBlock
  /\ blocks' = blocks + 1
  /\ UNCHANGED <<store, st, overlapped, steps>>

\* The bounds are reached.
Stop == blocks = MaxBlocks /\ UNCHANGED vars

SvmNext ==
  \E u \in Users, n \in Amounts :
    \/ \E k \in Payees : SvmTransfer(u, k, n) \/ SvmFailedLater(u, k, n)
    \/ \E o \in Users : SvmTokenTransfer(u, o, n)
    \/ SvmFailed(u)
    \/ SvmClose(u)

PoolNext ==
  \E u \in Users, n \in Amounts :
    \/ ShieldNative(u, n)
    \/ ShieldSpl(u, n)
    \/ Transfer(u, n)
    \/ \E k \in Payees : UnshieldNative(u, k, n)
    \/ \E o \in Users \cup {Vault} : UnshieldSpl(u, o, n)

BridgeNext ==
  \E u \in Users, n \in Amounts :
    \/ \E k \in Payees : CreditNative(k, n)
    \/ CreditSpl(u, n)
    \/ BurnNative(u, n)
    \/ BurnSpl(u, n)

Next ==
  \/ SvmNext
  \/ EndSvm
  \/ PoolNext
  \/ Merge
  \/ BridgeNext
  \/ DepositsDone
  \/ Commit
  \/ Lose
  \/ Stop

Spec == Init /\ [][Next]_vars

----------------------------------------------------------------------------
LamportsOf(s) == MapThenSumSet(LAMBDA k : IF s[k] = None THEN 0 ELSE s[k].lamports, Keys)
DataOf(k) == IF store[k] = None THEN 0 ELSE store[k].data

\* Every committed account is absent or has lamports and data that are naturals,
\* and a block in progress writes accounts only.
TypeOK ==
  LET accounts == [lamports : Nat, data : Nat] \cup {None}
  IN /\ DOMAIN store = Keys /\ \A k \in Keys : store[k] \in accounts
     /\ phase \in {"svm", "pool", "deposits", "withdraws"}
     /\ \A f \in {final_accounts, loaded, writes, token_overlay} :
          DOMAIN f \subseteq Keys /\ \A k \in DOMAIN f : f[k] \in accounts
     /\ DOMAIN overlay \subseteq Keys /\ \A k \in DOMAIN overlay : overlay[k] \in Nat
     /\ fees_collected \in Nat /\ pool_data \in Nat
     /\ dirty \in BOOLEAN /\ overlapped \in BOOLEAN

\* Tokens are moved, not minted or burned, by transfers and by the pool
\* (move_wrapped): the token accounts add up to the mint's supply, which is what
\* deposits minted less what withdrawals burned.
TokensConserved ==
  /\ MapThenSumSet(LAMBDA o : DataOf(Ata(o)), Owners) = DataOf(Mint)
  /\ DataOf(Mint) = Genesis[Mint].data + st.tokens

\* The same where no account was handled in two ways in a block: the executor and
\* the pool both wrote a token account, a native step read one that the executor
\* closed, or a transaction replaced what a failed one had left.
TokensConservedUnlessOverlapped == ~overlapped => TokensConserved

\* The vault's token account backs the shielded tokens, its lamports the shielded
\* lamports, and the pool state account has every commitment inserted, as
\* process_block_seeded and the merge leave them.
PoolBackedUnlessOverlapped ==
  ~overlapped =>
    /\ DataOf(Ata(Vault)) >= st.token_notes
    /\ st.notes > 0 => store[Wallet(Vault)] # None /\ store[Wallet(Vault)].lamports >= st.notes
    /\ DataOf(PoolState) = st.commitments

\* Lamports come from genesis, deposits, the rent of synthesized accounts and unshields
\* that the vault pays to itself, and leave by withdrawals only: fees, failed
\* transactions whose transfers stay, other pool moves and the merge conserve them.
LamportsAccountedUnlessOverlapped ==
  ~overlapped => LamportsOf(store) = LamportsOf(Genesis) + st.lamports

=============================================================================
