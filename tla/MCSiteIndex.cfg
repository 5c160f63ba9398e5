SPECIFICATION SiteSpec
CONSTANTS
  Root = root
  Subs = {sub}
  Names = {f, g}
  Like = {g}
  Builds = {b1, b2}
  First = b1
  MaxChanges = 3
INVARIANTS ServedWithIndex
PROPERTIES Converges
