CONSTANTS
  head = head
  foot = foot
  code = code
  Id = {head, foot}
  UserCode = {code}
  Templates <- FootTemplates
  Default <- NoDefault
  Orphans = Orphans
  MixForms = FALSE
  MaxFile = 8
SPECIFICATION KeepSpec
PROPERTIES
  RegenerateSettles
