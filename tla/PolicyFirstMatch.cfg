CONSTANTS
  etc = etc
  home = home
  long = long
  number = number
  read = read
  write = write
  path = path
  NoRegex = NoRegex
  BadRegex = BadRegex
  NoToolset = NoToolset
  NoLimit = NoLimit
  NoName = NoName
  Nothing = Nothing
  Length <- MCLength
  Menu <- MCMenu
  Additions <- MCMenu
  Toolsets <- MCToolsets
  Calls <- MCCalls
  MaxRules = 2
SPECIFICATION ReloadSpec
INVARIANT FirstMatchWins
