\* A program that calls Mu by its own name in brackets.
CONSTANTS
  a = 97  b = 98  eq = 61
  GO = GO  F = F  G = G  H = H  E = E  Twice = Twice  Odd = Odd
  Mu_ = Mu_  Br = Br  Dg = Dg  Cp = Cp  Rp = Rp  Up = Up
  Nameless = Nameless
  First_ = First_  Lenw_ = Lenw_  Type_ = Type_  Chr_ = Chr_  Ord_ = Ord_
  Lower_ = Lower_  Upper_ = Upper_  Explode_ = Explode_
  Implode_ = Implode_  ImplodeExt_ = ImplodeExt_
  Exit_ = Exit_  Residue_ = Residue_  Evm_ = Evm_
  ChunkSize = 4
  MaxChunks = 16
  Symbol <- MCSymbol
  Programs <- MCNameClash
  Main = GO
  Entries <- MCEntries
  Builtin <- MCBuiltin
  Special <- MCSpecial
  Spelling <- MCSpelling
  Imploded <- MCImploded
  Equal = 61
  Limits <- MCClashLimit
SPECIFICATION MappedSpec
INVARIANT MuFindsOneFunction
