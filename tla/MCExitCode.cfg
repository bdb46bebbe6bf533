\* Programs that call every builtin of the model, Up among them.
CONSTANTS
  a = 97  b = 98  eq = 61
  GO = GO  F = F  G = G  H = H  E = E  Twice = Twice  Odd = Odd
  Mu_ = Mu_  Br = Br  Dg = Dg  Cp = Cp  Rp = Rp  Up = Up
  Nameless = Nameless
  First_ = First_  Lenw_ = Lenw_  Type_ = Type_  Chr_ = Chr_  Ord_ = Ord_
  Lower_ = Lower_  Upper_ = Upper_  Explode_ = Explode_
  Implode_ = Implode_  ImplodeExt_ = ImplodeExt_
  Exit_ = Exit_  Residue_ = Residue_  Evm_ = Evm_
  ChunkSize = 4
  MaxChunks = 16
  Symbol <- MCSymbol
  Programs <- MCPrograms
  Main = GO
  Entries <- MCEntries
  Builtin <- MCBuiltin
  Special <- MCSpecial
  Spelling <- MCSpelling
  Imploded <- MCImploded
  Equal = 61
  Limits <- MCLimits
SPECIFICATION MappedSpec
PROPERTY BuiltinErrorExitCode
