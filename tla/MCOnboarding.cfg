SPECIFICATION OnboardingSpec
CONSTANTS
  c1 = c1
  c2 = c2
  server = server
  home = home
  other = other
  a1 = a1
  a2 = a2
  e1 = e1
  e2 = e2
  ada = ada
  g1 = g1
  g2 = g2
  k1 = k1
  NoAccount = NoAccount
  NoEmail = NoEmail
  NoSubject = NoSubject
  Requests <- MCRequests
  Servers <- MCServers
  ServerOf <- MCServerOf
  Orgs <- MCOrgs
  Home = home
  Accounts <- MCAccounts
  Emails <- MCEmails
  Subjects <- MCSubjects
  Groups <- MCGroups
  Attributes <- MCAttributes
  DefaultRole = "member"
  MaxVersion = 1
SYMMETRY Symmetry
INVARIANTS
  OnboardingTypeOK
  ClaimedOnce
  SignsOnAsItself
  NobodyIsForgotten
  
