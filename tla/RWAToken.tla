------------------------------ MODULE RWAToken ------------------------------
(***************************************************************************)
(* The compliance-gated ERC-20 with pause, partial freezing and forced     *)
(* transfers (contracts/src/RWAToken.sol).  update, returnEscrowedRWA,     *)
(* controllerMint and controllerBurn are the internal calls the other      *)
(* contracts make: their modules conjoin them with their own steps.        *)
(***************************************************************************)
EXTENDS ComplianceRegistry

CONSTANTS
  Contracts,      \* the project's contracts; they send tokens only through
                  \* their own functions
  Amounts,        \* the token amounts that calls carry
  Freezes         \* the <<account, amount>> holds that the admin may set

ASSUME TokenAssumption ==
  /\ SystemAddresses \subseteq Contracts
  /\ Contracts \subseteq Accounts
  /\ Amounts \subseteq Nat
  /\ Freezes \subseteq Accounts \X Nat

VARIABLES
  balance,        \* ERC20._balances
  totalSupply,    \* ERC20._totalSupply
  frozen,         \* _frozenTokens; may exceed the balance
  paused          \* Pausable._paused

tokenVars == <<balance, totalSupply, frozen, paused>>

Holders == Accounts \ Contracts

TokenInit ==
  /\ balance = [a \in Accounts |-> 0]
  /\ totalSupply = 0
  /\ frozen = [a \in Accounts |-> 0]
  /\ paused = FALSE

unfrozen(account) ==
  IF balance[account] > frozen[account] THEN balance[account] - frozen[account] ELSE 0

\* Mutant of Moved: both balances are read before either is written, so that a
\* transfer to oneself creates tokens.
MovedStale(f, from, to, value) ==
  [f EXCEPT ![from] = f[from] - value, ![to] = f[to] + value]

\* ERC20._update between two accounts, which may be the same one.
Moved(f, from, to, value) ==
  [[f EXCEPT ![from] = @ - value] EXCEPT ![to] = @ + value]

\* Mutants of updatable: the freeze, or the recipient's status, is forgotten.
updatableFrozen(from, to, value) ==
  ~paused /\ isAllowed(from) /\ isAllowed(to) /\ value <= balance[from]

updatableToAnyone(from, to, value) ==
  ~paused /\ isAllowed(from) /\ value <= unfrozen(from)

\* The conditions under which RWAToken._update lets a transfer through: the
\* amounts between the unfrozen part and the balance are refused here, those
\* above the balance by ERC20._update.
updatable(from, to, value) ==
  /\ ~paused
  /\ isAllowed(from)
  /\ isAllowed(to)
  /\ value <= unfrozen(from)

update(from, to, value) ==
  /\ updatable(from, to, value)
  /\ balance' = Moved(balance, from, to, value)

\* The escrow's own exit: it ignores pause and freeze.
returnable(to, value) ==
  /\ isAllowed(EscrowAddr)
  /\ isAllowed(to)
  /\ value <= balance[EscrowAddr]

returnEscrowedRWA(to, value) ==
  /\ returnable(to, value)
  /\ balance' = Moved(balance, EscrowAddr, to, value)

\* _mint and _burn go through ERC20Pausable._update but not through the
\* eligibility checks.
controllerMint(to, value) ==
  /\ ~paused
  /\ balance' = [balance EXCEPT ![to] = @ + value]
  /\ totalSupply' = totalSupply + value

controllerBurn(from, value) ==
  /\ ~paused
  /\ value <= balance[from]
  /\ balance' = [balance EXCEPT ![from] = @ - value]
  /\ totalSupply' = totalSupply - value

\* A holder's transfer, or a transferFrom the holder approved.
transfer(from, to, value) ==
  /\ update(from, to, value)
  /\ UNCHANGED <<totalSupply, frozen, paused>>

pause ==
  /\ ~paused
  /\ paused' = TRUE
  /\ UNCHANGED <<balance, totalSupply, frozen>>

unpause ==
  /\ paused
  /\ paused' = FALSE
  /\ UNCHANGED <<balance, totalSupply, frozen>>

\* Mutant of setFrozenTokens: the system addresses are not protected.
setFrozenTokensOfSystem(account, amount) ==
  /\ frozen' = [frozen EXCEPT ![account] = amount]
  /\ UNCHANGED <<balance, totalSupply, paused>>

setFrozenTokens(account, amount) ==
  /\ amount > 0 => account \notin SystemAddresses
  /\ frozen' = [frozen EXCEPT ![account] = amount]
  /\ UNCHANGED <<balance, totalSupply, paused>>

\* The hold that remains after a seizure has eaten into the frozen part.
frozenAfterSeizure(from, amount) ==
  IF amount > unfrozen(from) THEN frozen[from] - (amount - unfrozen(from)) ELSE frozen[from]

forcedTransfer(from, to, amount) ==
  /\ from # to
  /\ from \notin SystemAddresses
  /\ isAllowed(to)
  /\ amount <= balance[from]
  /\ frozen' = [frozen EXCEPT ![from] = frozenAfterSeizure(from, amount)]
  /\ balance' = Moved(balance, from, to, amount)
  /\ UNCHANGED <<totalSupply, paused>>

TokenNext ==
  \/ \E from \in Holders, to \in Accounts, value \in Amounts : transfer(from, to, value)
  \/ pause
  \/ unpause
  \/ \E f \in Freezes : setFrozenTokens(f[1], f[2])
  \/ \E from, to \in Accounts, amount \in Amounts : forcedTransfer(from, to, amount)

TokenTypeOK ==
  /\ balance \in [Accounts -> Nat]
  /\ totalSupply \in Nat
  /\ frozen \in [Accounts -> Nat]
  /\ paused \in BOOLEAN
=============================================================================
