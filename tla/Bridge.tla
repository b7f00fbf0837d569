------------------------------- MODULE Bridge -------------------------------
(***************************************************************************)
(* The bridge from end to end: deposits and claims of the settlement       *)
(* program on L1, the asset routing of apply_deposits and apply_withdraws  *)
(* on the L2 (zul-node/src/node.rs), the withdrawals tree, the batches     *)
(* that post its root, and the zul-l1-claim tool.                          *)
(*                                                                         *)
(* L1 custody is the vault's lamports, "SOL", and one token account of the *)
(* vault per mint.  A withdrawal names an asset id: "native" (all zero) or *)
(* a mint.  A block has one deposit, one withdrawal or something else; the *)
(* steps inside a block are in Sequencer, those of a post in Batcher.  The *)
(* tree has one place per path, the bits of a key that it looks at.  A     *)
(* root is the tree; a proof verifies exactly for the leaves of the tree.  *)
(***************************************************************************)
EXTENDS Naturals, Sequences, FiniteSets, FiniteSetsExt

CONSTANTS Users, Collector,
          Depositees,   \* the users that deposits are made out to
          Recipients,   \* L1 addresses withdrawals pay to
          Nonces, Mints,
          Paths,        \* the places of the withdrawals tree
          PathOf,       \* the path bits of the key of a recipient and nonce
          WSol,         \* native_sol_mint
          GasMints,     \* what options.gas_mint may be set to, NoMint for unset
          NoMint,
          Fee,          \* POOL_TX_FEE
          Rent,         \* lamports a new wrapped mint or token account is given
          \* bounds of the model
          Amounts, MaxDeposits, MaxWithdraws, MaxBatches

ASSUME BridgeAssumption ==
  /\ Collector \in Users /\ Depositees \subseteq Users /\ WSol \in Mints /\ NoMint \notin Mints
  /\ GasMints \subseteq (Mints \ {WSol}) \cup {NoMint}
  /\ PathOf \in [Recipients \X Nonces -> Paths]
  /\ Amounts \subseteq Nat \ {0}
  /\ {Fee, Rent, MaxDeposits, MaxWithdraws, MaxBatches} \subseteq Nat

Custodies == {"SOL"} \cup Mints
AssetIds == {"native"} \cup Mints

\* Mutant: the nonce is not part of the key.
LeafKeyNoNonce(recipient, nonce) == PathOf[<<recipient, CHOOSE n \in Nonces : TRUE>>]

\* withdrawal_pubkey and key_path: where a withdrawal is committed.
LeafKey(recipient, nonce) == PathOf[<<recipient, nonce>>]

\* withdrawal_account_hash: what is committed there.
Leaf(recipient, asset, amount, nonce) ==
  [recipient |-> recipient, asset |-> asset, amount |-> amount, nonce |-> nonce]
NoLeaf == [amount |-> 0]
KeyOf(leaf) == LeafKey(leaf.recipient, leaf.nonce)

VARIABLES
  gas_mint,  \* options.gas_mint, fixed when the node is configured
  vault,     \* L1: what each custody holds
  inbox,     \* deposits confirmed on L1 and not credited yet
  roots,     \* L1: the withdrawals root of every batch
  claimed,   \* L1: claim accounts, one per recipient and nonce
  native,    \* L2: spendable lamports of every user
  wrapped,   \* L2: wrapped balance per mint and user
  atas,      \* L2: token accounts that exist, <<mint, user>>
  tree,      \* L2: the withdrawals tree in memory
  publishing, \* L2: the leaf of a committed block that is not in the tree yet
  st_root,   \* L2: META_WITHDRAWALS_ROOT of the store, which batches post
  unsettled, \* L2: how many blocks with transactions no batch covers
  tool,      \* zul-l1-claim: idle, waiting or found, with its leaf and root or batch
  burns,     \* history: successful withdrawals
  paid,      \* history: successful claims
  unbacked,  \* history: what events of other programs told of each custody
  deposits   \* counter of the bound

l1Vars == <<vault, roots, claimed, paid>>
treeVars == <<tree, publishing, st_root>>
balVars == <<native, wrapped, atas>>
l2Vars == <<gas_mint, balVars, treeVars, unsettled, burns>>
depositVars == <<inbox, deposits, unbacked>>
vars == <<l1Vars, l2Vars, depositVars, tool>>

EmptyTree == [k \in Paths |-> NoLeaf]
IdleTool == [pc |-> "idle"]

Init ==
  /\ vault = [c \in Custodies |-> 0] /\ inbox = <<>> /\ roots = <<>>
  /\ claimed = {} /\ paid = <<>>
  /\ gas_mint \in GasMints
  /\ native = [u \in Users |-> 0] /\ wrapped = [m \in Mints |-> [u \in Users |-> 0]]
  /\ atas = {} /\ burns = <<>>
  /\ tree = EmptyTree /\ publishing = NoLeaf /\ st_root = EmptyTree /\ unsettled = 0
  /\ tool = IdleTool /\ deposits = 0 /\ unbacked = [c \in Custodies |-> 0]

----------------------------------------------------------------------------
\* L1: the settlement program

\* A Deposited event that the watcher finds: the custody, the L2 recipient, the
\* amount.
Deposited(c, to, amount) ==
  /\ deposits < MaxDeposits /\ deposits' = deposits + 1
  /\ inbox' = Append(inbox, [from |-> c, to |-> to, amount |-> amount])

DepositSol(to, amount) ==
  /\ Deposited("SOL", to, amount)
  /\ vault' = [vault EXCEPT !["SOL"] = @ + amount]
  /\ UNCHANGED <<roots, claimed, paid, l2Vars, unbacked, tool>>

\* Mutant: the requested amount is credited.
DepositSplRequested(m, to, amount, received) ==
  /\ Deposited(m, to, amount)
  /\ received \in 1..amount
  /\ vault' = [vault EXCEPT ![m] = @ + received]
  /\ UNCHANGED <<roots, claimed, paid, l2Vars, unbacked, tool>>

\* A mint with a transfer fee delivers less than requested; the event has what
\* the vault received.
DepositSpl(m, to, amount, received) ==
  /\ received \in 1..amount
  /\ Deposited(m, to, received)
  /\ vault' = [vault EXCEPT ![m] = @ + received]
  /\ UNCHANGED <<roots, claimed, paid, l2Vars, unbacked, tool>>

\* deposit_in_tx takes the first Deposited event in the logs of a transaction that
\* lists the config account, whichever program logged it.
DepositedElsewhere(c, to, amount) ==
  /\ Deposited(c, to, amount)
  /\ unbacked' = [unbacked EXCEPT ![c] = @ + amount]
  /\ UNCHANGED <<l1Vars, l2Vars, tool>>

\* Mutant: the batch carries the root of the batch before.
PostBatchStale ==
  /\ roots' = Append(roots, IF roots = <<>> THEN EmptyTree ELSE roots[Len(roots)])
  /\ \E n \in 1..unsettled : unsettled' = unsettled - n
  /\ UNCHANGED <<vault, claimed, paid, gas_mint, balVars, treeVars, burns, depositVars, tool>>

\* The batcher settles one or more blocks with the root that the store has now;
\* without a block that has transactions it posts nothing.
PostBatch ==
  /\ roots' = Append(roots, st_root)
  /\ \E n \in 1..unsettled : unsettled' = unsettled - n
  /\ UNCHANGED <<vault, claimed, paid, gas_mint, balVars, treeVars, burns, depositVars, tool>>

\* Where a claim of the asset is paid from: claim_withdrawal or
\* claim_withdrawal_spl.
PaidFrom(asset) == IF asset = "native" THEN "SOL" ELSE asset

\* Mutant: the claim account is not created afresh.
ClaimAcceptsAgain(b, leaf) ==
  leaf.amount > 0 /\ roots[b][KeyOf(leaf)] = leaf /\ vault[PaidFrom(leaf.asset)] >= leaf.amount

\* The claim account does not exist, the proof verifies against the batch's root
\* and the custody can pay.
ClaimAccepts(b, leaf) ==
  /\ <<leaf.recipient, leaf.nonce>> \notin claimed
  /\ leaf.amount > 0 /\ roots[b][KeyOf(leaf)] = leaf
  /\ vault[PaidFrom(leaf.asset)] >= leaf.amount

PayOut(leaf) ==
  /\ vault' = [vault EXCEPT ![PaidFrom(leaf.asset)] = @ - leaf.amount]
  /\ claimed' = claimed \cup {<<leaf.recipient, leaf.nonce>>}
  /\ paid' = Append(paid, leaf)

\* Anybody may submit a claim, with a proof against any posted root.
Claim(b, leaf) ==
  /\ ClaimAccepts(b, leaf)
  /\ PayOut(leaf)
  /\ UNCHANGED <<roots, l2Vars, depositVars, tool>>

----------------------------------------------------------------------------
\* L2: the blocks, of one deposit, one withdrawal or other transactions

CreditsNativeGas(d) == IF d.from = "SOL" THEN gas_mint = NoMint ELSE d.from = gas_mint

\* The L1 mint that a wrapped deposit is booked under.
WrappedAs(d) == IF d.from = "SOL" THEN WSol ELSE d.from

\* apply_deposits with its routing, and credit_wrapped_spl.
Credit ==
  LET d == Head(inbox)
      m == WrappedAs(d)
  IN /\ inbox # <<>> /\ inbox' = Tail(inbox)
     /\ \/ /\ CreditsNativeGas(d)
           /\ native' = [native EXCEPT ![d.to] = @ + d.amount]
           /\ UNCHANGED <<wrapped, atas>>
        \/ /\ ~CreditsNativeGas(d)
           /\ wrapped' = [wrapped EXCEPT ![m][d.to] = @ + d.amount]
           /\ atas' = atas \cup {<<m, d.to>>}
           /\ UNCHANGED native
     /\ UNCHANGED <<l1Vars, gas_mint, treeVars, unsettled, burns, tool, deposits, unbacked>>

IsNative(asset) == asset = "native" \/ asset = gas_mint

\* apply_withdraws: the fee in native lamports, the amount in native lamports or
\* from the token account.  A refused withdrawal changes nothing.  The block is
\* committed, and the next one waits for the lock that Publish releases.
Withdraw(u, r, asset, amount, n) ==
  LET needed == IF IsNative(asset) THEN amount + Fee ELSE Fee
      debited == [native EXCEPT ![u] = @ - needed]
  IN /\ Len(burns) < MaxWithdraws /\ publishing = NoLeaf
     /\ native[u] >= needed
     /\ IF IsNative(asset) THEN UNCHANGED wrapped
        ELSE /\ wrapped[asset][u] >= amount
             /\ wrapped' = [wrapped EXCEPT ![asset][u] = @ - amount]
     /\ native' = [debited EXCEPT ![Collector] = @ + Fee]
     /\ publishing' = Leaf(r, asset, amount, n)
     /\ burns' = Append(burns, Leaf(r, asset, amount, n))
     /\ unsettled' = unsettled + 1
     /\ UNCHANGED <<l1Vars, gas_mint, atas, tree, st_root, depositVars, tool>>

\* withdraw_smt::apply: a leaf replaces the one that has its place.
Published == IF publishing = NoLeaf THEN tree
             ELSE [tree EXCEPT ![KeyOf(publishing)] = publishing]

\* The leaf enters the tree and the root is persisted; a failure of that is only
\* logged.
Publish ==
  /\ publishing # NoLeaf /\ publishing' = NoLeaf
  /\ tree' = Published /\ st_root' \in {st_root, tree'}
  /\ UNCHANGED <<l1Vars, gas_mint, balVars, unsettled, burns, depositVars, tool>>

\* The node dies and starts again: rebuild_withdrawals takes the leaves from the
\* committed blocks and persists the root.
RestartNode ==
  /\ publishing' = NoLeaf /\ tree' = Published /\ st_root' = tree'
  /\ UNCHANGED <<l1Vars, gas_mint, balVars, unsettled, burns, depositVars, tool>>

\* A block of other transactions.
OtherBlock ==
  /\ publishing = NoLeaf /\ Len(roots) + unsettled < MaxBatches
  /\ unsettled' = unsettled + 1
  /\ UNCHANGED <<l1Vars, gas_mint, balVars, treeVars, burns, depositVars, tool>>

----------------------------------------------------------------------------
\* The zul-l1-claim tool

\* compute_withdrawal_proof: a proof against the root of this moment, or an error.
ToolFetch(leaf) ==
  /\ tool.pc = "idle" /\ tree[KeyOf(leaf)] = leaf
  /\ tool' = [pc |-> "waiting", leaf |-> leaf, root |-> tree]
  /\ UNCHANGED <<l1Vars, l2Vars, depositVars>>

\* find_batch_for_withdrawals_root: the newest batch with exactly that root.
ToolFind ==
  /\ tool.pc = "waiting"
  /\ \E b \in 1..Len(roots) :
       /\ roots[b] = tool.root /\ \A c \in b + 1..Len(roots) : roots[c] # tool.root
       /\ tool' = [pc |-> "found", leaf |-> tool.leaf, batch |-> b]
  /\ UNCHANGED <<l1Vars, l2Vars, depositVars>>

\* The claim is made or refused; the tool ends.
ToolClaim ==
  /\ tool.pc = "found" /\ tool' = IdleTool
  /\ \/ ClaimAccepts(tool.batch, tool.leaf) /\ PayOut(tool.leaf)
     \/ ~ClaimAccepts(tool.batch, tool.leaf) /\ UNCHANGED <<vault, claimed, paid>>
  /\ UNCHANGED <<roots, l2Vars, depositVars>>

\* The leaves a claim or a request can name.
Named == [recipient : Recipients, asset : AssetIds, amount : Amounts, nonce : Nonces]

DepositNext ==
  \E to \in Depositees, amount \in Amounts :
    \/ DepositSol(to, amount)
    \/ \E m \in Mints, received \in Amounts : DepositSpl(m, to, amount, received)
    \/ \E c \in Custodies : DepositedElsewhere(c, to, amount)

ChainNext ==
  \/ PostBatch \/ Credit \/ Publish \/ RestartNode \/ OtherBlock
  \/ \E u \in Users, r \in Recipients, asset \in AssetIds, amount \in Amounts, n \in Nonces :
       Withdraw(u, r, asset, amount, n)

ClaimNext == \E b \in 1..Len(roots), leaf \in Named : Claim(b, leaf)

ToolNext == (\E leaf \in Named : ToolFetch(leaf)) \/ ToolFind \/ ToolClaim

Next == DepositNext \/ ChainNext \/ ClaimNext \/ ToolNext

Spec == Init /\ [][Next]_vars

\* The batcher and the watcher run for ever, and so does the tool until it ends.
Fairness == WF_vars(PostBatch) /\ WF_vars(Credit) /\ WF_vars(ToolFind) /\ WF_vars(ToolClaim)

----------------------------------------------------------------------------
Leaves == [recipient : Recipients, asset : AssetIds, amount : Nat \ {0}, nonce : Nonces]
Trees == [Paths -> Leaves \cup {NoLeaf}]

\* Every variable has its type; no balance goes below zero.
TypeOK ==
  /\ gas_mint \in GasMints
  /\ vault \in [Custodies -> Nat] /\ native \in [Users -> Nat]
  /\ wrapped \in [Mints -> [Users -> Nat]] /\ atas \subseteq Mints \X Users
  /\ inbox \in Seq([from : Custodies, to : Users, amount : Nat \ {0}])
  /\ tree \in Trees /\ st_root \in Trees /\ roots \in Seq(Trees)
  /\ publishing \in Leaves \cup {NoLeaf} /\ claimed \subseteq Recipients \X Nonces
  /\ burns \in Seq(Leaves) /\ paid \in Seq(Leaves) /\ unbacked \in [Custodies -> Nat]
  /\ tool.pc \in {"idle", "waiting", "found"} /\ unsettled \in Nat

Total(f) == MapThenSumSet(LAMBDA u : f[u], Users)

GasCustody == IF gas_mint = NoMint THEN "SOL" ELSE gas_mint

\* What the L2 owes a custody's holders: deposits on their way, balances that
\* withdraw to it, and for every recipient and nonce not claimed the largest
\* leaf that a posted or a coming root lets its holder claim.
InFlight(c) ==
  MapThenSumSet(LAMBDA i : IF inbox[i].from = c THEN inbox[i].amount ELSE 0, 1..Len(inbox))
Supply(c) ==
  (IF c \in Mints THEN Total(wrapped[c]) ELSE 0) + (IF c = GasCustody THEN Total(native) ELSE 0)
Provable ==
  {publishing} \cup UNION {{t[k] : k \in Paths} : t \in {roots[b] : b \in 1..Len(roots)}
                                                         \cup {tree, st_root}}
ClaimableFrom(c, rn) ==
  {leaf \in Provable \ {NoLeaf} : <<leaf.recipient, leaf.nonce>> = rn /\ PaidFrom(leaf.asset) = c}
Owed(c) ==
  MapThenSumSet(LAMBDA rn : Max({0} \cup {leaf.amount : leaf \in ClaimableFrom(c, rn)}),
                (Recipients \X Nonces) \ claimed)

\* All that a custody has to cover, and what it has: what it holds and what events
\* of other programs only told of.
Due(c) == InFlight(c) + Supply(c) + Owed(c)
Has(c) == vault[c] + unbacked[c]

\* What claims of the native asset took.
NativePaid ==
  MapThenSumSet(LAMBDA i : IF paid[i].asset = "native" THEN paid[i].amount ELSE 0, 1..Len(paid))

\* Every custody covers what can be withdrawn and claimed from it, through
\* transfer fees, reused nonces, displaced leaves, old roots and claims in any
\* order, but for amounts that deposit_in_tx took from events of other programs.
\* With a gas mint apply_deposits books SOL as wrapped SOL and apply_withdraws
\* burns gas for the native asset: then the two custodies of SOL together cover
\* wrapped SOL, but for what claims of the native asset took.
CustodyCovers ==
  \/ gas_mint = NoMint /\ \A c \in Custodies : Has(c) >= Due(c)
  \/ /\ gas_mint # NoMint
     /\ \A c \in Mints \ {WSol} : Has(c) >= Due(c)
     /\ Has("SOL") + Has(WSol) + NativePaid >= InFlight("SOL") + Due(WSol)

\* "the matching asset is released from the L1 vault on claim": every custody
\* covers what is redeemable from it, in both modes.
EveryCustodyCovers == \A c \in Custodies : Has(c) >= Due(c)

\* "native supply is always fully backed 1:1": all lamports on the L2, the
\* deposits of new wrapped accounts included, are in the vault.
NativeFullyBacked ==
  LET wmints == {a[1] : a \in atas}
  IN  Total(native) + Rent * (Cardinality(atas) + Cardinality(wmints)) <= vault[GasCustody]

\* A claim pays a withdrawal that was burned, and each burn at most once, whatever
\* roots it can be proved against.
PaidWasBurned ==
  \A i \in 1..Len(paid) :
    Cardinality({j \in 1..Len(paid) : paid[j] = paid[i]})
      <= Cardinality({j \in 1..Len(burns) : burns[j] = paid[i]})

\* A burned withdrawal has been paid, or it is not claimed and its leaf is in the
\* tree or about to enter it.
Claimable(leaf) ==
  \/ \E i \in 1..Len(paid) : paid[i] = leaf
  \/ /\ tree[KeyOf(leaf)] = leaf \/ publishing = leaf
     /\ <<leaf.recipient, leaf.nonce>> \notin claimed

\* "claimable on L1 once settled": holds of every withdrawal.
BurnsClaimable == \A i \in 1..Len(burns) : Claimable(burns[i])

PathBits(leaf) == PathOf[<<leaf.recipient, leaf.nonce>>]

\* The same of every withdrawal unless a later one has the same path bits and
\* takes its place, or an earlier one has its recipient and nonce and so may take
\* its claim account: no other withdrawal, batch or claim gets in the way.
BurnsClaimableUnlessDisplaced ==
  \A i \in 1..Len(burns) :
    \/ Claimable(burns[i])
    \/ \E j \in i + 1..Len(burns) : PathBits(burns[j]) = PathBits(burns[i])
    \/ \E j \in 1..i - 1 : /\ burns[j].recipient = burns[i].recipient
                          /\ burns[j].nonce = burns[i].nonce

\* "Find the settlement batch that posted this withdrawals root (wait for it)":
\* the tool's wait ends.
ToolWaitEnds == (tool.pc = "waiting") ~> (tool.pc # "waiting")

\* The wait ends once the root is persisted while a block is still to be settled,
\* unless the root of a further withdrawal replaces it first.  A batch that read
\* the root before it was persisted does not count: after it the wait goes on
\* until another block has transactions.
ToolWaitEndsOnceSettled ==
  (tool.pc = "waiting" /\ st_root = tool.root /\ unsettled > 0)
    ~> (tool.pc # "waiting" \/ st_root # tool.root)
=============================================================================
